---- MODULE Spec2Model ----
(***************************************************************************)
(* A model of the video analysis backend:                                  *)
(*   - AudioProcessor.process and its helpers                              *)
(*     (src/backend/preprocessing/audio_processor.py),                     *)
(*   - VideoPipeline (src/backend/pipeline/video_pipeline.py) with the     *)
(*     analyzers it discovers (src/backend/analyzers),                     *)
(*   - the /analyze-video handler upload_video (src/backend/main.py).      *)
(*                                                                         *)
(* Time is counted in ticks.  Eps ticks are the 0.01 s of                  *)
(* _extract_keyframes, so a second is 100 * Eps ticks; with Eps = 60 a     *)
(* frame at 25 or 50 frames per second is a whole number of ticks and      *)
(* every keyframe position i/(N-1), N <= 7, of a scene that starts and     *)
(* ends on a frame is a whole number of ticks too.                         *)
(***************************************************************************)
EXTENDS Integers, Sequences, FiniteSets, TLC

\* ------------------------------------------------------------------ bounds

\* The longest video, in frames.
MaxFrames == 3

\* The largest keyframe count _extract_keyframes is called with directly.
MaxKeyframes == 5

\* The longest duration MoviePy reports, in hundredths of a second.
MaxClipCs == 13

\* The process calls made over one video.
MaxRuns == 2

\* The most frames of a video that VideoQualityAnalyzer.run samples.
MaxSampledFrames == 3

\* The most faces detect_and_extract_faces finds in a video.
MaxFaces == 3

\* The most doubles by which a face's hf_ratio lies above the double 0.1.
MaxUlps == 8

\* The largest max_retries transcribe_with_retry is called with.
MaxRetries == 3

\* The most polls after which the service has finished processing a file.
MaxPolls == 2

\* The most frames check_safety hands to analyze_nsfw_violence.
MaxImages == 2

\* The most frames of a video that videoSampling reads.
MaxVideoFrames == 4

\* ----------------------------------------------------------- time and units

\* 0.01 s (audio_processor.py line 189), in ticks.
Eps == 60

TicksPerSecond == 100 * Eps

FrameRates == {25, 50}

Min(a, b) == IF a <= b THEN a ELSE b

\* FrameTimecode.get_seconds(): a frame number as a time.
FramesToSeconds(f, rate) == (f * TicksPerSecond) \div rate

\* FrameTimecode(timecode=<seconds>, fps=rate): the nearest frame number.
SecondsToFrames(t, rate) == (2 * t * rate + TicksPerSecond) \div (2 * TicksPerSecond)

\* int(sec * 1000): a time in whole milliseconds, truncated.
Millis(t) == (t * 1000) \div TicksPerSecond

\* The durations VideoFileClip can report: ffmpeg prints hundredths of a second.
ClipDurations == {k * Eps : k \in 0..MaxClipCs}

\* The lengths of the audio track, in milliseconds: no samples, shorter than
\* the video, as long as a video of three frames at 25 frames per second, longer.
TrackLengths == {0, 50, 120, 200}

\* ---------------------------------------------------------------- variables

VARIABLES
    \* AudioProcessor: the inputs of one process() call
    nframes,         \* frames the scene detector's stream reports
    cuts,            \* frame numbers where ContentDetector finds a cut
    has_audio,       \* whether the clip has an audio track
    clip_duration,   \* self.video.duration
    full_audio,      \* len(full_audio): the audio track, in milliseconds
    save_segments,   \* process(save_segments=...)
    \* AudioProcessor: the state of the call
    pc,              \* position in process / _extract_keyframes
    caller,          \* who called _extract_keyframes: "process" or "direct"
    exc,             \* the exception that left the call, or "none"
    capture,         \* the cv2 capture inside _detect_scenes
    video,           \* self.video
    fps,
    duration,
    scene_list,
    scene_idx,
    scenes,
    start_time,
    end_time,
    num_frames,
    i,
    keyframes,
    disk,            \* artifacts written so far: path |-> content
    frame_requests,  \* the get_frame calls of this process call, in order
    run_no,          \* which process call over this video this is
    first_run        \* what the first process call returned and left on disk

apVars == <<nframes, cuts, has_audio, clip_duration, full_audio, save_segments,
            pc, caller,
            exc, capture, video, fps, duration, scene_list, scene_idx, scenes,
            start_time, end_time, num_frames, i, keyframes, disk,
            frame_requests, run_no, first_run>>

\* What a second process call over the same video starts from.
runVars == <<run_no, first_run>>

apInputs == <<nframes, cuts, has_audio, clip_duration, full_audio, save_segments,
              fps>>

VARIABLES
    \* the analyzers package and the uploads directory
    namespace,        \* analyzer classes the analyzers package holds
    fs,               \* files and directories that exist under uploads/
    \* one /analyze-video request per worker
    upload,           \* the request's upload: content hash and extension
    rq_pc,            \* position in upload_video
    video_path,       \* upload_video's video_path
    attempts,         \* AudioProcessor.process calls this request made
    process_errors,   \* what the failing ones of these calls raised, in order
    raised,           \* the exception in flight, or NoException
    response,         \* what the client receives
    \* VideoPipeline
    run_state,        \* "none", "running", "returned" or "raised"
    self_analyzers,   \* VideoPipeline.analyzers
    idx,              \* analyzers the loop of run has finished with
    analyzer,         \* whether the current analyzer is constructed
    analysis_results,
    handles,          \* cv2 captures opened by analyzers and not released
    removed           \* times this run removed its video file

srvInputs == <<namespace, upload>>

plVars == <<run_state, self_analyzers, idx, analyzer, analysis_results, handles,
            removed>>

srvVars == <<namespace, fs, upload, rq_pc, video_path, attempts, process_errors,
             raised, response,
             run_state, self_analyzers, idx, analyzer, analysis_results, handles,
             removed>>

VARIABLES
    \* VideoQualityAnalyzer: the video, as run() sees it
    total_pixels,       \* h * w of the video's frames
    video_frames,       \* what _extract_frames samples: one record per frame
    \* VideoQualityAnalyzer: the state of a run() or _get_resolution_score call
    vq_pc,              \* position in run
    vq_capture,         \* the cv2 capture of _extract_frames
    frames,
    frame_no,           \* frames the loop of run has finished with
    resolution_scores,
    sharpness_scores,
    color_scores,
    lighting_scores,
    vq_caught,          \* whether run's except clause ran
    vq_report           \* what run returned

vqInputs == <<total_pixels, video_frames>>

vqVars == <<total_pixels, video_frames, vq_pc, vq_capture, frames, frame_no,
            resolution_scores, sharpness_scores, color_scores, lighting_scores,
            vq_caught, vq_report>>

VARIABLES
    \* IAFaceDetector: the inputs of one run() call
    detected,              \* the faces detect_and_extract_faces finds
    max_faces_to_analyze,
    \* IAFaceDetector: the state of the call
    fd_pc,                 \* position in run
    faces,
    faces_to_analyze,
    ai_scores,
    fd_result              \* what run returned

fdVars == <<detected, max_faces_to_analyze, fd_pc, faces, faces_to_analyze,
            ai_scores, fd_result>>

VARIABLES
    \* one /transcript request per worker (with the variables of a request
    \* above)
    video_existed,    \* transcribe_video's video_existed
    transcriptions    \* transcribe_with_retry calls this request made

trVars == <<video_existed, transcriptions>>

VARIABLES
    \* TranscriptionService: the inputs of one transcribe_with_retry call
    max_retries,
    audio_exists,     \* whether audio_path is a file
    \* TranscriptionService: the state of the call
    ts_pc,            \* position in transcribe_with_retry / transcribe_audio
    attempt,          \* the loop variable of transcribe_with_retry
    ta_calls,         \* transcribe_audio calls so far
    sleeps,           \* the waits of transcribe_with_retry, in seconds
    audio_file,       \* state of the uploaded file: "PROCESSING", "ACTIVE", ...
    polls,            \* genai.get_file calls of this transcribe_audio call
    ts_remote,        \* files uploaded to the service and not deleted from it
    ts_saved          \* whether a transcript was saved

tsVars == <<max_retries, audio_exists, ts_pc, attempt, ta_calls, sleeps,
            audio_file, polls, ts_remote, ts_saved>>

VARIABLES
    \* SafetyChecker: the inputs of one check_safety call
    image_paths,      \* the sampled frames: whether each path exists
    transcript,
    \* SafetyChecker: the state of the call
    sc_pc,            \* position in check_safety and its sub-analyses
    path_no,          \* paths the upload loop has finished with
    uploaded_files,   \* len(uploaded_files)
    sc_remote,        \* files uploaded to the service and not deleted from it
    nsfw_result,
    bias_result,
    misleading_result,
    sc_report         \* what check_safety returned

scVars == <<image_paths, transcript, sc_pc, path_no, uploaded_files, sc_remote,
            nsfw_result, bias_result, misleading_result, sc_report>>

VARIABLES
    \* VideoProcessor: the inputs of one videoSampling call
    vs_frames,        \* the frames of the video
    vs_fps,
    \* VideoProcessor: the state of the call
    vs_pc,
    frames_read,      \* successful cap.read() calls so far
    prev_hist,        \* the reference histogram
    key_moments,
    vs_result         \* what videoSampling returned

vsVars == <<vs_frames, vs_fps, vs_pc, frames_read, prev_hist, key_moments,
            vs_result>>

anVars == <<vqVars, fdVars, trVars, tsVars, scVars, vsVars>>

\* What the steps of each component leave alone.
exceptQuality ==
    <<apVars, srvVars, fdVars, trVars, tsVars, scVars, vsVars>>

exceptFaces ==
    <<apVars, srvVars, vqVars, trVars, tsVars, scVars, vsVars>>

exceptHandlers ==
    <<apVars, vqVars, fdVars, tsVars, scVars, vsVars>>

exceptTranscription ==
    <<apVars, srvVars, vqVars, fdVars, trVars, scVars, vsVars>>

exceptSafety ==
    <<apVars, srvVars, vqVars, fdVars, trVars, tsVars, vsVars>>

exceptSampling ==
    <<apVars, srvVars, vqVars, fdVars, trVars, tsVars, scVars>>

vars == <<apVars, srvVars, anVars>>

\* ------------------------------------------- AudioProcessor: pure functions

RECURSIVE SortedSeq(_)
\* A finite set of integers as an ascending sequence.
SortedSeq(S) ==
    IF S = {} THEN <<>>
    ELSE LET m == CHOOSE x \in S : \A y \in S : x <= y
         IN <<m>> \o SortedSeq(S \ {m})

\* SceneManager.get_scene_list(): no cut gives the empty list; otherwise the
\* scenes between consecutive cuts, from frame 0 to the last frame.
GetSceneList(cutset, n) ==
    IF cutset = {} THEN <<>>
    ELSE LET b == <<0>> \o SortedSeq(cutset) \o <<n>>
         IN [k \in 1..(Len(b) - 1) |-> <<b[k], b[k + 1]>>]

\* process, lines 54-60: the fallback for an empty scene list.
FallbackSceneList_IntSeconds(list, rate, dur) ==
    IF list = <<>> THEN << <<0, dur \div TicksPerSecond>> >> ELSE list

FallbackSceneList(list, rate, dur) ==
    IF list = <<>> THEN << <<0, SecondsToFrames(dur, rate)>> >> ELSE list

\* _extract_keyframes, lines 185-186: the i-th timestamp before clamping.
\* The position is the fraction num/den.
Timestamp_OverN(start, end, n, k) ==
    start + ((end - start) * k) \div n

Timestamp(start, end, n, k) ==
    LET num == IF n > 1 THEN k ELSE 1
        den == IF n > 1 THEN n - 1 ELSE 2
    IN start + ((end - start) * num) \div den

\* _extract_keyframes, line 189.
Clamp_NoEps(t, clipdur) == Min(t, clipdur)

Clamp(t, clipdur) == Min(t, clipdur - Eps)

\* process, line 94: full_audio[a:b].  pydub cuts both ends of the slice down
\* to the length of the track; the slice holds the milliseconds lo..hi-1.
Slice_InclusiveEnd(len, a, b) == <<Min(a, len), Min(b + 1, len)>>

Slice(len, a, b) == <<Min(a, len), Min(b, len)>>

Keyframe(start, end, n, k, clipdur) ==
    [raw |-> Timestamp(start, end, n, k),
     at  |-> Clamp(Timestamp(start, end, n, k), clipdur)]

\* _extract_keyframes, line 192: a self.video.get_frame(timestamp) call and
\* whether the decoder could read the frame.
FrameRequest(start, end, n, k, clipdur, ok) ==
    [at |-> Clamp(Timestamp(start, end, n, k), clipdur), ok |-> ok]

\* process, lines 94-114: the SceneSegment of the scene just extracted.
SceneSegment(index, start, end, kfs, save) ==
    [scene_index    |-> index,
     start_time     |-> start,
     end_time       |-> end,
     audio          |-> Slice(full_audio, Millis(start), Millis(end)),
     keyframes      |-> kfs,
     audio_path     |-> IF save THEN index ELSE -1,
     keyframe_paths |-> IF save THEN [k \in 1..Len(kfs) |-> k - 1] ELSE <<>>]

\* A path under uploads/ that process writes, and what a file holds: the
\* millisecond range of an audio file, the timestamp of a keyframe image.
Path(kind, index, k) == [kind |-> kind, scene |-> index, k |-> k]

EmptyDisk == [p \in {} |-> <<0, 0>>]

\* Writing files: an existing path is overwritten.
WriteFiles(d, files) ==
    [p \in (DOMAIN d) \cup (DOMAIN files) |->
        IF p \in DOMAIN files THEN files[p] ELSE d[p]]

\* _extract_full_audio, lines 240-251: audio/{video_uuid}_audio.mp3.
FullAudioFile == [p \in {Path("full_audio", 0, 0)} |-> <<0, 0>>]

\* _save_scene_segments, lines 221-222: scenes/scene_{index:04d}.mp3.
SceneAudioFile(index, start, end) ==
    [p \in {Path("scene_audio", index, 0)} |->
        Slice(full_audio, Millis(start), Millis(end))]

\* _save_scene_segments, lines 214-229: the audio file and the keyframe
\* files keyframe_{k}.jpg of scene index.
SceneFiles_NumberedPerCall(index, start, end, kfs) ==
    LET n == index + (run_no - 1) * Len(scene_list)
    IN WriteFiles([p \in {Path("scene_audio", n, 0)} |->
                      Slice(full_audio, Millis(start), Millis(end))],
                  [p \in {Path("keyframe", n, k - 1) : k \in 1..Len(kfs)} |->
                      <<kfs[p.k + 1].at, 0>>])

SceneFiles(index, start, end, kfs) ==
    WriteFiles(SceneAudioFile(index, start, end),
               [p \in {Path("keyframe", index, k - 1) : k \in 1..Len(kfs)} |->
                   <<kfs[p.k + 1].at, 0>>])

\* No process call has returned yet.
NoRun == [scenes |-> <<>>, requests |-> <<>>, disk |-> EmptyDisk, done |-> FALSE]

\* ------------------------------------------------- the analyzers package

\* The classes analyzers/__init__.py imports and lists in __all__.
AnalyzerClasses == {"BaseAnalyzer", "IAFaceDetector", "VideoQualityAnalyzer"}

\* analyzers/__init__.py, line 5: the registration order.
RegistrationOrder == <<"BaseAnalyzer", "IAFaceDetector", "VideoQualityAnalyzer">>

\* The submodule a class is imported from; importing it binds the submodule's
\* name in the package too.
SubmoduleOf(c) ==
    CASE c = "BaseAnalyzer" -> "base_analyzer"
      [] c = "IAFaceDetector" -> "ia_face_detector"
      [] c = "VideoQualityAnalyzer" -> "video_quality"

\* The attribute names of the package that holds the classes ns.
PackageAttributes(ns) ==
    ns \cup {SubmoduleOf(c) : c \in ns} \cup {"__all__", "__name__"}

\* Every attribute name, in the order of their code points: dir() sorts.
CodePointOrder ==
    <<"BaseAnalyzer", "IAFaceDetector", "VideoQualityAnalyzer", "__all__",
      "__name__", "base_analyzer", "ia_face_detector", "video_quality">>

\* dir(analyzers): the attribute names, sorted.
Dir(attrs) ==
    LET Held(n) == n \in attrs
    IN SelectSeq(CodePointOrder, Held)

\* _discover_analyzers, lines 13-20: the names whose object is a class
\* defined under the analyzers package, in dir()'s order.
DiscoverAnalyzers(ns) ==
    LET IsAnalyzerClass(n) == n \in AnalyzerClasses
    IN SelectSeq(Dir(PackageAttributes(ns)), IsAnalyzerClass)

\* ------------------------------------------------------------- exceptions

NoException == [type |-> "none", msg |-> ""]

\* The messages that matter to upload_video, each standing for the messages
\* that contain it (and none of the longer ones).
Messages == {"failed to read the first frame", "failed to read", "MoviePy error",
             "other"}

\* "failed to read" in str(e)
HasFailedToRead(m) == m \in {"failed to read the first frame", "failed to read"}

\* "failed to read the first frame" in error_msg
HasFirstFrame(m) == m = "failed to read the first frame"

\* "MoviePy error" in str(e)
HasMoviePyError(m) == m = "MoviePy error"

\* What AudioProcessor.process raises: an OSError of the decoders, or
\* another exception (the ValueError of line 70, a library's error).
ProcessErrors ==
    {[type |-> "OSError", msg |-> m] : m \in Messages}
        \cup {[type |-> "Exception", msg |-> "other"]}

\* ---------------------------------------------------- analyzer behaviour

\* An outcome of a constructor or of run(): whether it raises, what it
\* raises, and whether it leaves a cv2 capture it opened unreleased.
Outcome(raises, leaks, type) ==
    [raises |-> raises, leaks |-> leaks,
     exc |-> IF raises THEN [type |-> type, msg |-> "other"] ELSE NoException]

\* BaseAnalyzer: its module is not in the repository.  Taken from the
\* specification's scorer contract: constructing it and running it give a
\* result, so every raise in this model comes from code that is in src/.
BaseAnalyzerOutcomes == {Outcome(FALSE, FALSE, "none")}

\* IAFaceDetector.__init__, lines 9-13: _extract_images opens a capture and
\* releases it on line 46 unless the loop raises; _load_face_model raises
\* after the release.
IAFaceDetectorInit ==
    {Outcome(FALSE, FALSE, "none"),
     Outcome(TRUE, TRUE, "Exception"),
     Outcome(TRUE, FALSE, "Exception"),
     Outcome(TRUE, FALSE, "OSError")}

\* IAFaceDetector.run, lines 122-130: no handler around the model call.
IAFaceDetectorRun ==
    {Outcome(FALSE, FALSE, "none"), Outcome(TRUE, FALSE, "Exception")}

\* VideoQualityAnalyzer.__init__, lines 6-8: the class has no base, so
\* super().__init__(video_path) is object.__init__ with an argument: TypeError.
VideoQualityAnalyzerInit == {Outcome(TRUE, FALSE, "Exception")}

\* VideoQualityAnalyzer.run, lines 183-259: everything is inside try/except;
\* _extract_frames releases its capture unless its loop raises.
VideoQualityAnalyzerRun ==
    {Outcome(FALSE, FALSE, "none"), Outcome(FALSE, TRUE, "none")}

InitOutcomes(c) ==
    CASE c = "BaseAnalyzer" -> BaseAnalyzerOutcomes
      [] c = "IAFaceDetector" -> IAFaceDetectorInit
      [] c = "VideoQualityAnalyzer" -> VideoQualityAnalyzerInit

RunOutcomes(c) ==
    CASE c = "BaseAnalyzer" -> BaseAnalyzerOutcomes
      [] c = "IAFaceDetector" -> IAFaceDetectorRun
      [] c = "VideoQualityAnalyzer" -> VideoQualityAnalyzerRun

\* ------------------------------------------------------------ the uploads

\* Two workers, each serving one /analyze-video request.
Requests == {"r1", "r2"}

Hashes == {"h1", "h2"}

Extensions == {".mp4", ".webm"}

Uploads == [hash : Hashes, ext : Extensions]

\* uploads/{file_hash}{file_ext}
VideoFile(path) == <<"video", path.hash, path.ext>>

\* uploads/frames/{file_hash}, non-empty
FramesDir(h) == <<"frames", h, "">>

\* uploads/audio/{file_hash}_audio.mp3
AudioFile(h) == <<"audio", h, "">>

\* webm_path.rsplit('.', 1)[0] + '.mp4'
Mp4Path(path) == [hash |-> path.hash, ext |-> ".mp4"]

NoResponse == [kind |-> "none", status |-> 0, analyzers |-> <<>>, llm_summary |-> FALSE]

\* final_results, video_pipeline.py lines 59-62, sent with status 200.
ResultResponse(results) ==
    [kind |-> "result", status |-> 200, analyzers |-> results, llm_summary |-> TRUE]

\* A JSONResponse of an except clause of upload_video, or the server's own
\* answer to an exception that leaves the handler.
ErrorResponse(kind, status) ==
    [kind |-> kind, status |-> status, analyzers |-> <<>>, llm_summary |-> FALSE]

IdleServer ==
    /\ namespace = AnalyzerClasses
    /\ fs = {}
    /\ upload = [r \in Requests |-> [hash |-> "h1", ext |-> ".mp4"]]
    /\ rq_pc = [r \in Requests |-> "absent"]
    /\ video_path = upload
    /\ attempts = [r \in Requests |-> 0]
    /\ process_errors = [r \in Requests |-> <<>>]
    /\ raised = [r \in Requests |-> NoException]
    /\ response = [r \in Requests |-> NoResponse]
    /\ run_state = [r \in Requests |-> "none"]
    /\ self_analyzers = [r \in Requests |-> <<>>]
    /\ idx = [r \in Requests |-> 0]
    /\ analyzer = [r \in Requests |-> "none"]
    /\ analysis_results = [r \in Requests |-> <<>>]
    /\ handles = [r \in Requests |-> 0]
    /\ removed = [r \in Requests |-> 0]

\* ------------------------------------- VideoQualityAnalyzer: pure functions

\* Scores are counted in thousandths: 1.0 is Scale.
Scale == 1000

Max(a, b) == IF a >= b THEN a ELSE b

\* max(0.0, min(1.0, x))
Clamp01(x) == Max(0, Min(Scale, x))

RECURSIVE Sum(_)
Sum(seq) == IF seq = <<>> THEN 0 ELSE seq[1] + Sum(Tail(seq))

\* np.mean of a non-empty list.
Mean(seq) == Sum(seq) \div Len(seq)

\* A curve given by its values at 0, step, 2 * step, ...: the value at x,
\* linear between two points and along the last segment beyond the last one.
Interp(table, step, x) ==
    LET k == Min(x \div step, Len(table) - 2)
    IN table[k + 1] + ((table[k + 2] - table[k + 1]) * (x - k * step)) \div step

\* np.tanh at 0, 0.25, ..., 5.0, in thousandths.
TanhTable ==
    <<0, 245, 462, 635, 762, 848, 905, 941, 964, 978, 987, 992, 995, 997, 998,
      999, 999, 1000, 1000, 1000, 1000>>

\* np.tanh(t); it is 1.0 to the thousandth from t = 5.0 on.
Tanh(t) == IF t >= 5 * Scale THEN Scale ELSE Interp(TanhTable, 250, t)

\* x ** 0.8, 0.85, 0.9, 1.2 and 1.5 at 0, 0.05, ..., 1.0, in thousandths.
Pow80Table ==
    <<0, 91, 158, 219, 276, 330, 382, 432, 480, 528, 574, 620, 665, 708, 752,
      794, 837, 878, 919, 960, 1000>>

Pow85Table ==
    <<0, 78, 141, 199, 255, 308, 359, 410, 459, 507, 555, 602, 648, 693, 738,
      783, 827, 871, 914, 957, 1000>>

Pow90Table ==
    <<0, 67, 126, 181, 235, 287, 338, 389, 438, 487, 536, 584, 631, 679, 725,
      772, 818, 864, 910, 955, 1000>>

Pow120Table ==
    <<0, 27, 63, 103, 145, 189, 236, 284, 333, 384, 435, 488, 542, 596, 652,
      708, 765, 823, 881, 940, 1000>>

Pow150Table ==
    <<0, 11, 32, 58, 89, 125, 164, 207, 253, 302, 354, 408, 465, 524, 586, 650,
      716, 784, 854, 926, 1000>>

\* np.power(x, e) and x ** e for x >= 0.
Power(table, x) == Interp(table, 50, x)

\* _get_resolution_score counts in ScoreUnits, in which its four slopes and
\* its breakpoint values are whole numbers: 1.0 is ScoreUnits.
ScoreUnits == 660 * Scale * Scale

\* _get_resolution_score, lines 41-52, of h * w = pixels.
GetResolutionScore_TierOffset(pixels) ==
    IF pixels >= 8000000 THEN ScoreUnits
    ELSE IF pixels >= 2000000
    THEN 7 * (ScoreUnits \div 10)
             + (pixels - 2000000) * ((3 * (ScoreUnits \div 10)) \div 6000000)
    ELSE IF pixels >= 900000
    THEN 3 * (ScoreUnits \div 10)
             + (pixels - 900000) * ((4 * (ScoreUnits \div 10)) \div 1100000)
    ELSE IF pixels >= 300000
    THEN 2 * (ScoreUnits \div 10)
             + (pixels - 300000) * ((2 * (ScoreUnits \div 10)) \div 600000)
    ELSE pixels * ((ScoreUnits \div 10) \div 300000)

GetResolutionScore(pixels) ==
    IF pixels >= 8000000 THEN ScoreUnits
    ELSE IF pixels >= 2000000
    THEN 7 * (ScoreUnits \div 10)
             + (pixels - 2000000) * ((3 * (ScoreUnits \div 10)) \div 6000000)
    ELSE IF pixels >= 900000
    THEN 3 * (ScoreUnits \div 10)
             + (pixels - 900000) * ((4 * (ScoreUnits \div 10)) \div 1100000)
    ELSE IF pixels >= 300000
    THEN 1 * (ScoreUnits \div 10)
             + (pixels - 300000) * ((2 * (ScoreUnits \div 10)) \div 600000)
    ELSE pixels * ((ScoreUnits \div 10) \div 300000)

\* float(score) in thousandths.
Thousandths(units) == units \div (ScoreUnits \div Scale)

\* What cv2 and numpy measure on one sampled frame, in thousandths
\* (variance: in units of the Laplacian's variance), whether the frame is a
\* 2-D array, and whether computing a metric on it raises.
Frame(variance, saturation, cv_ratio, brightness, dynamic_range, clipped, gray, fails) ==
    [variance |-> variance, saturation |-> saturation, cv_ratio |-> cv_ratio,
     brightness |-> brightness, dynamic_range |-> dynamic_range,
     clipped |-> clipped, gray |-> gray, fails |-> fails]

\* _get_sharpness_score, lines 66-74.
GetSharpnessScore(frame) ==
    Power(Pow80Table, Tanh((frame.variance * Scale) \div 300))

\* The band score of lines 110-116, 137-143 and 151-157: 1.0 inside
\* [lo, hi], (x / lo) ** 1.5 below it, (1 - (x - hi) / (1 - hi)) ** 1.5 above.
BandScore(x, lo, hi) ==
    Clamp01(IF lo <= x /\ x <= hi THEN Scale
            ELSE IF x < lo THEN Power(Pow150Table, (x * Scale) \div lo)
            ELSE Power(Pow150Table,
                       Scale - ((x - hi) * Scale) \div (Scale - hi)))

\* _get_color_balance_score, lines 78-119: the color_score.
GetColorBalanceScore(frame) ==
    IF frame.gray THEN Scale \div 2
    ELSE LET balance_score ==
                 Power(Pow120Table, Scale - Tanh(frame.cv_ratio * 3))
             saturation_score == BandScore(frame.saturation, 350, 650)
         IN (balance_score * 65 + saturation_score * 35) \div 100

\* _get_lighting_score, lines 133-171: the lighting_score.
GetLightingScore_PenaltyAdded(frame) ==
    LET brightness_score == BandScore(frame.brightness, 420, 580)
        dynamic_range_score == BandScore(frame.dynamic_range, 750, 920)
        clipping_penalty == (Power(Pow150Table, frame.clipped) * 8) \div 10
    IN Power(Pow90Table,
             (brightness_score * 45 + dynamic_range_score * 45
                  + (Scale + clipping_penalty) * 10) \div 100)

GetLightingScore(frame) ==
    LET brightness_score == BandScore(frame.brightness, 420, 580)
        dynamic_range_score == BandScore(frame.dynamic_range, 750, 920)
        clipping_penalty == (Power(Pow150Table, frame.clipped) * 8) \div 10
    IN Power(Pow90Table,
             (brightness_score * 45 + dynamic_range_score * 45
                  + (Scale - clipping_penalty) * 10) \div 100)

\* run, lines 190-196 and 253-259: the all-zero report.
ZeroReport ==
    [resolution_score |-> 0, sharpness_score |-> 0, color_score |-> 0,
     lighting_score |-> 0, overall_quality |-> 0]

NoReport == [resolution_score |-> -1]

\* run, lines 226-247: the report of the collected scores.
Report(res, sharp, color, light) ==
    LET avg_resolution == IF res # <<>> THEN Thousandths(res[1]) ELSE 0
        avg_sharpness == IF sharp # <<>> THEN Mean(sharp) ELSE 0
        avg_color == IF color # <<>> THEN Mean(color) ELSE 0
        avg_lighting == IF light # <<>> THEN Mean(light) ELSE 0
    IN [resolution_score |-> avg_resolution,
        sharpness_score  |-> avg_sharpness,
        color_score      |-> avg_color,
        lighting_score   |-> avg_lighting,
        overall_quality  |->
            Power(Pow85Table,
                  (avg_resolution * 15 + avg_sharpness * 35 + avg_color * 20
                       + avg_lighting * 30) \div 100)]

\* -------------------------------------- VideoQualityAnalyzer: the steps

\* The pixel counts of the frame sizes 320x240, 640x480, 1280x720, 1920x1080
\* and 3840x2160.
FrameSizes == {320 * 240, 640 * 480, 1280 * 720, 1920 * 1080, 3840 * 2160}

\* Pixel counts around every breakpoint of _get_resolution_score, the frame
\* sizes, and a grid from 0 to 9,000,000.
PixelCounts ==
    FrameSizes
        \cup {b + d : b \in {300000, 900000, 2000000, 8000000}, d \in {-1, 0, 1}}
        \cup {k * 125000 : k \in 0..72}

\* Measurements at the ends and inside of every band of the metrics.
Variances == {0, 300, 3000}
Saturations == {0, 500, 1000}
CvRatios == {0, 1414}
Brightnesses == {0, 500, 1000}
DynamicRanges == {0, 800, 1000}
Clippings == {0, 1000}

\* Every sampled frame of the measurements above.
AllFrames ==
    {Frame(v, s, c, b, d, x, g, f) :
        v \in Variances, s \in Saturations, c \in CvRatios, b \in Brightnesses,
        d \in DynamicRanges, x \in Clippings, g \in BOOLEAN, f \in BOOLEAN}

\* A black frame, a well exposed sharp frame, a clipped white frame, and a
\* frame on which a metric raises.
FrameKinds ==
    {Frame(0, 0, 0, 0, 0, 1000, FALSE, FALSE),
     Frame(3000, 500, 0, 500, 800, 0, FALSE, FALSE),
     Frame(300, 1000, 1414, 1000, 1000, 1000, FALSE, FALSE),
     Frame(3000, 500, 0, 500, 800, 0, FALSE, TRUE)}

\* The sampled frames of a video: none, any one frame, or up to
\* MaxSampledFrames frames of the kinds above.
SampledFrames ==
    {<<>>} \cup {<<f>> : f \in AllFrames}
        \cup UNION {[1..n -> FrameKinds] : n \in 2..MaxSampledFrames}

\* No VideoQualityAnalyzer call is under way.
IdleQuality ==
    /\ total_pixels = 0
    /\ video_frames = <<>>
    /\ vq_pc = "idle"
    /\ vq_capture = "none"
    /\ frames = <<>>
    /\ frame_no = 0
    /\ resolution_scores = <<>>
    /\ sharpness_scores = <<>>
    /\ color_scores = <<>>
    /\ lighting_scores = <<>>
    /\ vq_caught = FALSE
    /\ vq_report = NoReport

\* run, lines 185-196, with _extract_frames, lines 12-28: a raise inside the
\* read loop (cv2.cvtColor) skips video.release() and is caught by run.
ExtractFrames ==
    /\ UNCHANGED exceptQuality
    /\ vq_pc = "extract"
    /\ \/ /\ vq_capture' = "open"
          /\ vq_caught' = TRUE
          /\ vq_report' = ZeroReport
          /\ vq_pc' = "returned"
          /\ UNCHANGED frames
       \/ /\ vq_capture' = "released"
          /\ frames' = video_frames
          /\ IF video_frames = <<>>
             THEN /\ vq_report' = ZeroReport
                  /\ vq_pc' = "returned"
             ELSE /\ vq_pc' = "score"
                  /\ UNCHANGED vq_report
          /\ UNCHANGED vq_caught
    /\ UNCHANGED <<vqInputs, frame_no, resolution_scores, sharpness_scores,
                   color_scores, lighting_scores>>

\* run, lines 207-223: one iteration of the loop over frames.  No metric is
\* guarded on its own: an exception leaves the loop for the except clause of
\* lines 249-259.
ScoreFrame ==
    /\ UNCHANGED exceptQuality
    /\ vq_pc = "score"
    /\ frame_no < Len(frames)
    /\ LET frame == frames[frame_no + 1]
       IN IF frame.fails
          THEN /\ vq_caught' = TRUE
               /\ vq_report' = ZeroReport
               /\ vq_pc' = "returned"
               /\ UNCHANGED <<frame_no, resolution_scores, sharpness_scores,
                              color_scores, lighting_scores>>
          ELSE /\ resolution_scores' =
                      IF resolution_scores = <<>>
                      THEN <<GetResolutionScore(total_pixels)>>
                      ELSE resolution_scores
               /\ sharpness_scores' =
                      Append(sharpness_scores, GetSharpnessScore(frame))
               /\ color_scores' = Append(color_scores, GetColorBalanceScore(frame))
               /\ lighting_scores' = Append(lighting_scores, GetLightingScore(frame))
               /\ frame_no' = frame_no + 1
               /\ UNCHANGED <<vq_caught, vq_report, vq_pc>>
    /\ UNCHANGED <<vqInputs, vq_capture, frames>>

\* run, lines 226-247: the averages and the report.
ReturnReport ==
    /\ UNCHANGED exceptQuality
    /\ vq_pc = "score"
    /\ frame_no = Len(frames)
    /\ vq_report' = Report(resolution_scores, sharpness_scores, color_scores,
                           lighting_scores)
    /\ vq_pc' = "returned"
    /\ UNCHANGED <<vqInputs, vq_capture, frames, frame_no, resolution_scores,
                   sharpness_scores, color_scores, lighting_scores, vq_caught>>

\* _get_resolution_score(frame), lines 32-52, called on its own.
GetResolutionScoreCall ==
    /\ UNCHANGED exceptQuality
    /\ vq_pc = "resolution"
    /\ resolution_scores' = <<GetResolutionScore(total_pixels)>>
    /\ vq_pc' = "resolution_returned"
    /\ UNCHANGED <<vqInputs, vq_capture, frames, frame_no, sharpness_scores,
                   color_scores, lighting_scores, vq_caught, vq_report>>

\* run() about to be called on an analyzer whose video_path is set.
InitQuality ==
    /\ total_pixels \in FrameSizes
    /\ video_frames \in SampledFrames
    /\ vq_pc = "extract"
    /\ vq_capture = "none"
    /\ frames = <<>>
    /\ frame_no = 0
    /\ resolution_scores = <<>>
    /\ sharpness_scores = <<>>
    /\ color_scores = <<>>
    /\ lighting_scores = <<>>
    /\ vq_caught = FALSE
    /\ vq_report = NoReport

\* _get_resolution_score about to be called on a frame of h * w pixels.
InitResolution ==
    /\ total_pixels \in PixelCounts
    /\ video_frames = <<>>
    /\ vq_pc = "resolution"
    /\ vq_capture = "none"
    /\ frames = <<>>
    /\ frame_no = 0
    /\ resolution_scores = <<>>
    /\ sharpness_scores = <<>>
    /\ color_scores = <<>>
    /\ lighting_scores = <<>>
    /\ vq_caught = FALSE
    /\ vq_report = NoReport

\* ---------------------------------------------- IAFaceDetector: the steps

\* np.power(normalized, 0.15) at 0, 0.05, ..., 1.0, in thousandths.
Pow15Table ==
    <<0, 638, 708, 752, 786, 812, 835, 854, 872, 887, 901, 914, 926, 937, 948,
      958, 967, 976, 984, 992, 1000>>

\* A face region detect_and_extract_faces cut out: the high-frequency share
\* of its noise residual's spectrum, in thousandths, and whether analysing
\* it raises.
Face(hf_ratio, fails) == [hf_ratio |-> hf_ratio, ulps |-> 0, fails |-> fails]

\* A face whose hf_ratio is the double that lies `ulps` doubles above the
\* double 0.1 of line 95 (the doubles of [0.0625, 0.125) are 2^-56 apart).
EdgeFace(ulps) == [hf_ratio |-> 100, ulps |-> ulps, fails |-> FALSE]

\* n / d rounded to the nearest integer, ties to the even one: the rounding
\* of every double-precision operation.
HalfEven(n, d) ==
    LET q == n \div d
        r == n % d
    IN IF 2 * r < d THEN q
       ELSE IF 2 * r > d THEN q + 1
       ELSE IF q % 2 = 0 THEN q ELSE q + 1

\* _compute_prnu_score, lines 94-96: np.clip((hf_ratio - 0.1) / 0.4, 0, 1).
ComputePrnuScore(hf_ratio) == Clamp01(((hf_ratio - 100) * Scale) \div 400)

\* The same for hf_ratio = 0.1 + ulps * 2^-56, in units of 2^-57: the
\* difference is exact and the quotient is 2.5 * ulps * 2^-56.
ComputePrnuScoreAtEdge(ulps) == 5 * ulps

\* Line 102 for a realness of `units` * 2^-57: how many doubles 1.0 -
\* realness_score lies below 1.0 (the doubles of [0.5, 1) are 2^-53 apart).
AiScoreBelowOne(units) == HalfEven(units, 16)

\* Line 114 for ai_score `below` doubles under 1.0: how many doubles
\* (ai_score - 0.7) / (1.0 - 0.7) lies below 1.0.
NormalizedBelowOne(below) == HalfEven(10 * below, 3)

\* Line 118 for normalized `below` doubles under 1.0: how many doubles
\* np.power(normalized, 0.15) lies below 1.0.
PowerBelowOne(below) == HalfEven(15 * below, 100)

\* _analyze_face_ai_vs_human, lines 100-118: the score of a face whose
\* analysis does not raise, in thousandths rounded down, so that Scale is
\* the double 1.0 and nothing else.
Suspicion(face) ==
    IF face.hf_ratio = 100 /\ face.ulps > 0
    THEN LET below == PowerBelowOne(NormalizedBelowOne(AiScoreBelowOne(
                          ComputePrnuScoreAtEdge(face.ulps))))
         IN IF below = 0 THEN Scale ELSE Scale - 1
    ELSE LET ai_score == Scale - ComputePrnuScore(face.hf_ratio)
             normalized == IF ai_score <= 700 THEN 0
                           ELSE IF ai_score >= Scale THEN Scale
                           ELSE ((ai_score - 700) * Scale) \div (Scale - 700)
         IN Clamp01(Power(Pow15Table, normalized))

\* _analyze_face_ai_vs_human, lines 99-120: the suspicion score of one face;
\* whatever raises inside is caught and gives 0.0.
AnalyzeFaceAiVsHuman_FailureCountsAsAi(face) ==
    IF face.fails THEN Scale ELSE Suspicion(face)

AnalyzeFaceAiVsHuman(face) ==
    IF face.fails THEN 0 ELSE Suspicion(face)

\* run, line 127: faces[:max_faces_to_analyze], for max_faces_to_analyze >= 0.
FacesToAnalyze_All(all_faces, max) == all_faces

FacesToAnalyze(all_faces, max) == SubSeq(all_faces, 1, Min(Len(all_faces), max))

\* A score run returns, as the fraction num / den; 0.0 is 0 / 1.
Fraction(num, den) == [num |-> num, den |-> den]

\* run, lines 129-130.
FinalScore_NearSaturation(scores) ==
    IF scores = <<>> THEN Fraction(0, 1)
    ELSE Fraction(Cardinality({k \in 1..Len(scores) : scores[k] >= Scale - 1}),
                  Len(scores))

FinalScore(scores) ==
    IF scores = <<>> THEN Fraction(0, 1)
    ELSE Fraction(Cardinality({k \in 1..Len(scores) : scores[k] >= Scale}),
                  Len(scores))

\* Residual spectra below, at and above the two ends of the clip of line 95
\* and of the band of lines 109-114.
HfRatios == {50, 100, 160, 220, 500}

FaceKinds == {Face(h, f) : h \in HfRatios, f \in BOOLEAN}

DetectedFaces == UNION {[1..n -> FaceKinds] : n \in 0..MaxFaces}

\* Faces at the lower end of the clip of line 95, where realness is 0 or
\* next to it, and one face of realness 1.
EdgeFaces == {EdgeFace(u) : u \in 0..MaxUlps} \cup {Face(500, FALSE)}

DetectedEdgeFaces == UNION {[1..n -> EdgeFaces] : n \in 0..MaxFaces}

NoScore == Fraction(-1, 1)

\* No IAFaceDetector.run call is under way.
IdleFaces ==
    /\ detected = <<>>
    /\ max_faces_to_analyze = 0
    /\ fd_pc = "idle"
    /\ faces = <<>>
    /\ faces_to_analyze = <<>>
    /\ ai_scores = <<>>
    /\ fd_result = NoScore

\* run, lines 123-127, with detect_and_extract_faces, lines 50-75: the model
\* call is not guarded, so an exception of the detector leaves run.
DetectFaces ==
    /\ UNCHANGED exceptFaces
    /\ fd_pc = "detect"
    /\ \/ /\ fd_pc' = "raised"
          /\ UNCHANGED <<faces, faces_to_analyze, fd_result>>
       \/ /\ faces' = detected
          /\ IF detected = <<>>
             THEN /\ fd_result' = Fraction(0, 1)
                  /\ fd_pc' = "returned"
                  /\ UNCHANGED faces_to_analyze
             ELSE /\ faces_to_analyze' = FacesToAnalyze(detected,
                                                        max_faces_to_analyze)
                  /\ fd_pc' = "analyze"
                  /\ UNCHANGED fd_result
    /\ UNCHANGED <<detected, max_faces_to_analyze, ai_scores>>

\* run, line 128: one element of the list comprehension.
AnalyzeFace ==
    /\ UNCHANGED exceptFaces
    /\ fd_pc = "analyze"
    /\ Len(ai_scores) < Len(faces_to_analyze)
    /\ ai_scores' = Append(ai_scores,
                           AnalyzeFaceAiVsHuman(
                               faces_to_analyze[Len(ai_scores) + 1]))
    /\ UNCHANGED <<detected, max_faces_to_analyze, fd_pc, faces, faces_to_analyze,
                   fd_result>>

\* run, lines 129-130.
ReturnScore ==
    /\ UNCHANGED exceptFaces
    /\ fd_pc = "analyze"
    /\ Len(ai_scores) = Len(faces_to_analyze)
    /\ fd_result' = FinalScore(ai_scores)
    /\ fd_pc' = "returned"
    /\ UNCHANGED <<detected, max_faces_to_analyze, faces, faces_to_analyze,
                   ai_scores>>

\* run(max_faces_to_analyze) about to be called on a constructed detector.
InitFaces ==
    /\ detected \in DetectedFaces
    /\ max_faces_to_analyze \in 0..(MaxFaces + 1)
    /\ fd_pc = "detect"
    /\ faces = <<>>
    /\ faces_to_analyze = <<>>
    /\ ai_scores = <<>>
    /\ fd_result = NoScore

\* run() about to be called on a video whose faces are all at the edge.
InitSaturation ==
    /\ detected \in DetectedEdgeFaces
    /\ max_faces_to_analyze \in {MaxFaces - 1, MaxFaces}
    /\ fd_pc = "detect"
    /\ faces = <<>>
    /\ faces_to_analyze = <<>>
    /\ ai_scores = <<>>
    /\ fd_result = NoScore

NextFaces ==
    \/ DetectFaces
    \/ AnalyzeFace
    \/ ReturnScore

\* No /transcript request is under way.
IdleTranscripts ==
    /\ video_existed = [r \in Requests |-> FALSE]
    /\ transcriptions = [r \in Requests |-> 0]


\* ------------------------------------- TranscriptionService: the steps

\* transcribe_with_retry, line 233: wait_time = (attempt + 1) * 2.
WaitTime_FromAttempt(n) == n * 2

WaitTime(n) == (n + 1) * 2

\* The states genai reports for an uploaded file.
FileStates == {"PROCESSING", "ACTIVE", "FAILED"}

\* No transcribe_with_retry call is under way.
IdleTranscription ==
    /\ max_retries = 0
    /\ audio_exists = FALSE
    /\ ts_pc = "idle"
    /\ attempt = 0
    /\ ta_calls = 0
    /\ sleeps = <<>>
    /\ audio_file = "none"
    /\ polls = 0
    /\ ts_remote = 0
    /\ ts_saved = FALSE

\* transcribe_with_retry, lines 230-235: the except clause after a failed
\* transcribe_audio call (whose own except clause, lines 120-122, re-raises).
AttemptFailed ==
    /\ sleeps' = IF attempt < max_retries - 1
                 THEN Append(sleeps, WaitTime(attempt))
                 ELSE sleeps
    /\ attempt' = attempt + 1
    /\ ts_pc' = "loop"

\* transcribe_with_retry, lines 227-229 and 237, with transcribe_audio,
\* lines 60-61: the next attempt, or the exception after the last one.
CallTranscribeAudio ==
    /\ UNCHANGED exceptTranscription
    /\ ts_pc = "loop"
    /\ IF attempt < max_retries
       THEN /\ ta_calls' = ta_calls + 1
            /\ polls' = 0
            /\ audio_file' = "none"
            /\ IF audio_exists
               THEN /\ ts_pc' = "upload"
                    /\ UNCHANGED <<attempt, sleeps>>
               ELSE AttemptFailed
       ELSE /\ ts_pc' = "raised"
            /\ UNCHANGED <<attempt, ta_calls, sleeps, audio_file, polls>>
    /\ UNCHANGED <<max_retries, audio_exists, ts_remote, ts_saved>>

\* transcribe_audio, line 66: genai.upload_file.
UploadAudio ==
    /\ UNCHANGED exceptTranscription
    /\ ts_pc = "upload"
    /\ \/ \* the upload raises
          /\ AttemptFailed
          /\ UNCHANGED <<audio_file, ts_remote>>
       \/ /\ \E st \in FileStates : audio_file' = st
          /\ ts_remote' = ts_remote + 1
          /\ ts_pc' = "poll"
          /\ UNCHANGED <<attempt, sleeps>>
    /\ UNCHANGED <<max_retries, audio_exists, ta_calls, polls, ts_saved>>

\* transcribe_audio, lines 69-75: wait while the file is PROCESSING, which
\* the service ends within MaxPolls polls, and fail if it is FAILED.
PollAudio ==
    /\ UNCHANGED exceptTranscription
    /\ ts_pc = "poll"
    /\ CASE audio_file = "PROCESSING" ->
              \/ \* genai.get_file raises
                 /\ AttemptFailed
                 /\ UNCHANGED <<audio_file, polls>>
              \/ /\ polls' = polls + 1
                 /\ \E st \in FileStates :
                       /\ st = "PROCESSING" => polls + 1 < MaxPolls
                       /\ audio_file' = st
                 /\ UNCHANGED <<attempt, sleeps, ts_pc>>
         [] audio_file = "FAILED" ->
              /\ AttemptFailed
              /\ UNCHANGED <<audio_file, polls>>
         [] OTHER ->
              /\ ts_pc' = "generate"
              /\ UNCHANGED <<attempt, sleeps, audio_file, polls>>
    /\ UNCHANGED <<max_retries, audio_exists, ta_calls, ts_remote, ts_saved>>

\* transcribe_audio, lines 96-110: generate_content and response.text may
\* raise; _parse_response falls back to the raw text; the transcript is saved.
GenerateTranscript ==
    /\ UNCHANGED exceptTranscription
    /\ ts_pc = "generate"
    /\ \/ /\ AttemptFailed
          /\ UNCHANGED ts_saved
       \/ /\ ts_saved' = TRUE
          /\ ts_pc' = "delete"
          /\ UNCHANGED <<attempt, sleeps>>
    /\ UNCHANGED <<max_retries, audio_exists, ta_calls, audio_file, polls,
                   ts_remote>>

\* transcribe_audio, lines 116-118: delete the uploaded file and return.
DeleteAudio ==
    /\ UNCHANGED exceptTranscription
    /\ ts_pc = "delete"
    /\ \/ \* genai.delete_file raises
          /\ AttemptFailed
          /\ UNCHANGED ts_remote
       \/ /\ ts_remote' = ts_remote - 1
          /\ ts_pc' = "returned"
          /\ UNCHANGED <<attempt, sleeps>>
    /\ UNCHANGED <<max_retries, audio_exists, ta_calls, audio_file, polls,
                   ts_saved>>

\* transcribe_with_retry(audio_path, max_retries) about to be called.
InitTranscription ==
    /\ max_retries \in 1..MaxRetries
    /\ audio_exists \in BOOLEAN
    /\ ts_pc = "loop"
    /\ attempt = 0
    /\ ta_calls = 0
    /\ sleeps = <<>>
    /\ audio_file = "none"
    /\ polls = 0
    /\ ts_remote = 0
    /\ ts_saved = FALSE

NextTranscription ==
    \/ CallTranscribeAudio
    \/ UploadAudio
    \/ PollAudio
    \/ GenerateTranscript
    \/ DeleteAudio

\* ------------------------------------------------ SafetyChecker: the steps

\* A severity whose "warning" reaches down to the score of a failed
\* sub-analysis.
Severity_OfWarningFlag(min_score) ==
    IF min_score >= 80 THEN "safe"
    ELSE IF min_score >= 50 THEN "warning"
    ELSE "unsafe"

\* check_safety, lines 94-99: the thresholds of SAFETY_SEVERITY_THRESHOLDS
\* of config.py, written out.
Severity(min_score) ==
    IF min_score >= 80 THEN "safe"
    ELSE IF min_score >= 60 THEN "warning"
    ELSE "unsafe"

\* check_safety, lines 81-85 and 102: round(0.4 * nsfw + 0.3 * bias + 0.3 *
\* misleading, 1), in tenths; for whole sub-scores the sum is a whole number
\* of tenths and the rounding removes the error of the float products.
OverallScore(nsfw, bias, misleading) == 4 * nsfw + 3 * bias + 3 * misleading

\* The result of a sub-analysis: its score and flag, and whether it is the
\* result of an except clause ('analysis_failed').
SubResult(score, flag, failed) == [score |-> score, flag |-> flag, failed |-> failed]

\* Lines 128-133, 144-149, 216-221, 279-284, 296-301: nothing to analyse.
NothingToAnalyze == SubResult(100, "safe", FALSE)

\* Lines 195-201, 259-264, 344-350: the result of the except clauses.
AnalysisFailed == SubResult(50, "warning", TRUE)

\* _parse_json_response, lines 409-416: the response is not JSON.
UnparsedResponse == SubResult(50, "warning", FALSE)

NoSubResult == SubResult(-1, "none", FALSE)

NoSafetyReport ==
    [overall_score |-> -1, severity |-> "none", nsfw_violence |-> NoSubResult,
     bias_stereotypes |-> NoSubResult, misleading_claims |-> NoSubResult]

\* check_safety, lines 81-109.
SafetyReport(nsfw, bias, misleading) ==
    [overall_score |-> OverallScore(nsfw.score, bias.score, misleading.score),
     severity |-> Severity(Min(nsfw.score, Min(bias.score, misleading.score))),
     nsfw_violence |-> nsfw,
     bias_stereotypes |-> bias,
     misleading_claims |-> misleading]

Flags == {"safe", "warning", "unsafe"}

\* The scores the model answers with: the two thresholds and the scores
\* just below them.
GeminiScores == {59, 60, 79, 80}

\* What _parse_json_response makes of a response of the model.
GeminiResults ==
    {SubResult(s, f, FALSE) : s \in GeminiScores, f \in Flags}
        \cup {UnparsedResponse}

\* The transcripts: empty, without and with one of MISLEADING_KEYWORDS.
Transcripts == {"", "plain", "guaranteed"}

\* The frame paths handed to analyze_nsfw_violence: for each, whether the
\* file exists.
ImagePaths == UNION {[1..n -> BOOLEAN] : n \in 0..MaxImages}

\* No check_safety call is under way.
IdleSafety ==
    /\ image_paths = <<>>
    /\ transcript = ""
    /\ sc_pc = "idle"
    /\ path_no = 0
    /\ uploaded_files = 0
    /\ sc_remote = 0
    /\ nsfw_result = NoSubResult
    /\ bias_result = NoSubResult
    /\ misleading_result = NoSubResult
    /\ sc_report = NoSafetyReport

\* analyze_nsfw_violence, lines 127-137.
AnalyzeNsfwViolence ==
    /\ UNCHANGED exceptSafety
    /\ sc_pc = "nsfw"
    /\ IF image_paths = <<>>
       THEN /\ nsfw_result' = NothingToAnalyze
            /\ sc_pc' = "bias"
       ELSE /\ sc_pc' = "upload"
            /\ UNCHANGED nsfw_result
    /\ UNCHANGED <<image_paths, transcript, path_no, uploaded_files, sc_remote,
                   bias_result, misleading_result, sc_report>>

\* analyze_nsfw_violence, lines 138-149: one path of the upload loop, or the
\* end of the loop.
UploadImage ==
    /\ UNCHANGED exceptSafety
    /\ sc_pc = "upload"
    /\ IF path_no < Len(image_paths)
       THEN /\ path_no' = path_no + 1
            /\ IF image_paths[path_no + 1]
               THEN \/ \* genai.upload_file raises: lines 193-201
                       /\ nsfw_result' = AnalysisFailed
                       /\ sc_pc' = "bias"
                       /\ UNCHANGED <<uploaded_files, sc_remote>>
                    \/ /\ uploaded_files' = uploaded_files + 1
                       /\ sc_remote' = sc_remote + 1
                       /\ UNCHANGED <<nsfw_result, sc_pc>>
               ELSE UNCHANGED <<uploaded_files, sc_remote, nsfw_result, sc_pc>>
       ELSE /\ IF uploaded_files = 0
               THEN /\ nsfw_result' = NothingToAnalyze
                    /\ sc_pc' = "bias"
               ELSE /\ sc_pc' = "generate"
                    /\ UNCHANGED nsfw_result
            /\ UNCHANGED <<path_no, uploaded_files, sc_remote>>
    /\ UNCHANGED <<image_paths, transcript, bias_result, misleading_result,
                   sc_report>>

\* analyze_nsfw_violence, lines 152-181: the polls, generate_content and
\* response.text may raise; the response is parsed.
GenerateNsfwAnalysis ==
    /\ UNCHANGED exceptSafety
    /\ sc_pc = "generate"
    /\ \/ /\ nsfw_result' = AnalysisFailed
          /\ sc_pc' = "bias"
       \/ /\ \E res \in GeminiResults : nsfw_result' = res
          /\ sc_pc' = "delete"
    /\ UNCHANGED <<image_paths, transcript, path_no, uploaded_files, sc_remote,
                   bias_result, misleading_result, sc_report>>

\* analyze_nsfw_violence, lines 184-191: each file is deleted, and a delete
\* that raises is passed over.
DeleteImages ==
    /\ UNCHANGED exceptSafety
    /\ sc_pc = "delete"
    /\ \E kept \in 0..uploaded_files : sc_remote' = kept
    /\ sc_pc' = "bias"
    /\ UNCHANGED <<image_paths, transcript, path_no, uploaded_files, nsfw_result,
                   bias_result, misleading_result, sc_report>>

\* analyze_bias_stereotypes, lines 215-264.
AnalyzeBiasStereotypes ==
    /\ UNCHANGED exceptSafety
    /\ sc_pc = "bias"
    /\ IF transcript = ""
       THEN bias_result' = NothingToAnalyze
       ELSE \/ bias_result' = AnalysisFailed
            \/ \E res \in GeminiResults : bias_result' = res
    /\ sc_pc' = "misleading"
    /\ UNCHANGED <<image_paths, transcript, path_no, uploaded_files, sc_remote,
                   nsfw_result, misleading_result, sc_report>>

\* analyze_misleading_claims, lines 278-350.
AnalyzeMisleadingClaims ==
    /\ UNCHANGED exceptSafety
    /\ sc_pc = "misleading"
    /\ IF transcript \in {"", "plain"}
       THEN misleading_result' = NothingToAnalyze
       ELSE \/ misleading_result' = AnalysisFailed
            \/ \E res \in GeminiResults : misleading_result' = res
    /\ sc_pc' = "report"
    /\ UNCHANGED <<image_paths, transcript, path_no, uploaded_files, sc_remote,
                   nsfw_result, bias_result, sc_report>>

\* check_safety, lines 81-113.
BuildReport ==
    /\ UNCHANGED exceptSafety
    /\ sc_pc = "report"
    /\ sc_report' = SafetyReport(nsfw_result, bias_result, misleading_result)
    /\ sc_pc' = "returned"
    /\ UNCHANGED <<image_paths, transcript, path_no, uploaded_files, sc_remote,
                   nsfw_result, bias_result, misleading_result>>

\* check_safety(transcript, keyframe_paths) about to be called.
InitSafety ==
    /\ image_paths \in ImagePaths
    /\ transcript \in Transcripts
    /\ sc_pc = "nsfw"
    /\ path_no = 0
    /\ uploaded_files = 0
    /\ sc_remote = 0
    /\ nsfw_result = NoSubResult
    /\ bias_result = NoSubResult
    /\ misleading_result = NoSubResult
    /\ sc_report = NoSafetyReport

\* The sub-scores check_safety is checked over: every fifth score, and the
\* scores next to the thresholds and to the ends.
SubScores == {5 * k : k \in 0..20} \cup {1, 59, 61, 79, 81, 99}

\* check_safety at line 80, with three sub-results of any scores.
InitSeverity ==
    /\ image_paths = <<>>
    /\ transcript = ""
    /\ sc_pc = "report"
    /\ path_no = 0
    /\ uploaded_files = 0
    /\ sc_remote = 0
    /\ nsfw_result \in {SubResult(s, "safe", FALSE) : s \in SubScores}
    /\ bias_result \in {SubResult(s, "safe", FALSE) : s \in SubScores}
    /\ misleading_result \in {SubResult(s, "safe", FALSE) : s \in SubScores}
    /\ sc_report = NoSafetyReport

NextSafety ==
    \/ AnalyzeNsfwViolence
    \/ UploadImage
    \/ GenerateNsfwAnalysis
    \/ DeleteImages
    \/ AnalyzeBiasStereotypes
    \/ AnalyzeMisleadingClaims
    \/ BuildReport

NextSeverity == BuildReport

\* --------------------------------------------- VideoProcessor: the steps

\* A frame of the video: the class of its histogram and the variance of its
\* Laplacian.
VideoFrame(hist, variance) == [hist |-> hist, variance |-> variance]

Hists == {"a", "b", "c"}

\* cv2.compareHist(h1, h2, cv2.HISTCMP_CORREL), in thousandths: 1 for equal
\* histograms; the classes a and b correlate at the threshold 0.7 exactly,
\* b and c just below it.
Correl(h1, h2) ==
    CASE h1 = h2 -> 1000
      [] {h1, h2} = {"a", "b"} -> 700
      [] {h1, h2} = {"b", "c"} -> 699
      [] OTHER -> 200

\* videoSampling, line 20: the default of blur_threshold.
BlurThreshold == 100

\* The variances of the frames: just below the threshold, and at it.
LaplacianVariances == {BlurThreshold - 1, BlurThreshold}

\* An is_blurry that finds no frame blurry.
IsBlurry_Never(frame, threshold) == FALSE

\* is_blurry, lines 10-18.
IsBlurry(frame, threshold) == frame.variance < threshold

\* cap.get(cv2.CAP_PROP_POS_MSEC) after the k-th read: the time of the frame
\* just read, in milliseconds.
PosMsec(k, rate) == ((k - 1) * 1000) \div rate

\* The videos: every sequence of at most MaxVideoFrames frames.
Videos ==
    UNION {[1..n -> {VideoFrame(h, v) : h \in Hists, v \in LaplacianVariances}] :
              n \in 0..MaxVideoFrames}

\* No videoSampling call is under way.
IdleSampling ==
    /\ vs_frames = <<>>
    /\ vs_fps = 0
    /\ vs_pc = "idle"
    /\ frames_read = 0
    /\ prev_hist = "none"
    /\ key_moments = <<>>
    /\ vs_result = "none"

\* videoSampling, lines 25-34: open the video and read its first frame.
ReadFirstFrame ==
    /\ UNCHANGED exceptSampling
    /\ vs_pc = "start"
    /\ IF vs_frames = <<>>
       THEN /\ vs_result' = <<>>
            /\ vs_pc' = "returned"
            /\ UNCHANGED <<frames_read, prev_hist>>
       ELSE /\ frames_read' = 1
            /\ prev_hist' = vs_frames[1].hist
            /\ vs_pc' = "loop"
            /\ UNCHANGED vs_result
    /\ UNCHANGED <<vs_frames, vs_fps, key_moments>>

\* videoSampling, lines 36-62: one iteration of the loop, or the end of the
\* video.  A key moment is kept with the number of its frame.
ReadNextFrame ==
    /\ UNCHANGED exceptSampling
    /\ vs_pc = "loop"
    /\ IF frames_read = Len(vs_frames)
       THEN /\ vs_result' = key_moments
            /\ vs_pc' = "returned"
            /\ UNCHANGED <<frames_read, prev_hist, key_moments>>
       ELSE /\ frames_read' = frames_read + 1
            /\ IF /\ Correl(prev_hist, vs_frames[frames_read + 1].hist) < 700
                  /\ ~IsBlurry(vs_frames[frames_read + 1], BlurThreshold)
               THEN /\ key_moments' =
                          Append(key_moments,
                                 [at |-> PosMsec(frames_read + 1, vs_fps),
                                  frame |-> frames_read + 1])
                    /\ prev_hist' = vs_frames[frames_read + 1].hist
               ELSE UNCHANGED <<key_moments, prev_hist>>
            /\ UNCHANGED <<vs_pc, vs_result>>
    /\ UNCHANGED <<vs_frames, vs_fps>>

\* videoSampling() about to be called on a video.
InitSampling ==
    /\ vs_frames \in Videos
    /\ vs_fps \in FrameRates
    /\ vs_pc = "start"
    /\ frames_read = 0
    /\ prev_hist = "none"
    /\ key_moments = <<>>
    /\ vs_result = "none"

NextSampling ==
    \/ ReadFirstFrame
    \/ ReadNextFrame

IdleAnalyzers ==
    IdleQuality /\ IdleFaces /\ IdleTranscripts /\ IdleTranscription /\ IdleSafety /\ IdleSampling

\* ------------------------------------------------ AudioProcessor: the steps

\* process, line 91: _extract_keyframes(..., num_frames=5).
ProcessNumFrames == 5

\* The exceptions a failing library call raises.
LibraryErrors == {"OSError", "Exception"}

\* The for loop of process, line 85: enter scene index, or leave the loop.
EnterScene(index, list) ==
    IF index < Len(list)
    THEN /\ scene_idx' = index
         /\ start_time' = FramesToSeconds(list[index + 1][1], fps)
         /\ end_time' = FramesToSeconds(list[index + 1][2], fps)
         /\ num_frames' = ProcessNumFrames
         /\ i' = 0
         /\ keyframes' = <<>>
         /\ pc' = "keyframes"
    ELSE /\ pc' = "close"
         /\ UNCHANGED <<scene_idx, start_time, end_time, num_frames, i, keyframes>>

\* process, lines 52-62, with _detect_scenes, lines 150-166.
DetectScenes ==
    /\ UNCHANGED <<srvVars, anVars>>
    /\ pc = "detect"
    /\ \/ \* open_video raises: nothing was opened
          /\ \E e \in LibraryErrors : exc' = e
          /\ pc' = "raised"
          /\ UNCHANGED <<capture, duration, scene_list>>
       \/ \* detect_scenes raises: line 164 is never reached
          /\ \E e \in LibraryErrors : exc' = e
          /\ pc' = "raised"
          /\ capture' = "open"
          /\ UNCHANGED <<duration, scene_list>>
       \/ /\ capture' = "released"
          /\ duration' = FramesToSeconds(nframes, fps)
          /\ scene_list' = FallbackSceneList(GetSceneList(cuts, nframes), fps,
                                             FramesToSeconds(nframes, fps))
          /\ pc' = "open"
          /\ exc' = exc
    /\ UNCHANGED <<apInputs, caller, video, scene_idx, scenes, start_time,
                   end_time, num_frames, i, keyframes, disk, frame_requests,
                   runVars>>

\* process, lines 65-70.
OpenVideo_NoAudioCheck ==
    /\ UNCHANGED <<srvVars, anVars>>
    /\ pc = "open"
    /\ \/ /\ exc' = "OSError"
          /\ pc' = "raised"
          /\ video' = video
       \/ /\ video' = "open"
          /\ pc' = "audio"
          /\ exc' = exc
    /\ UNCHANGED <<apInputs, caller, capture, duration, scene_list, scene_idx,
                   scenes, start_time, end_time, num_frames, i, keyframes, disk,
                   frame_requests, runVars>>

OpenVideo ==
    /\ UNCHANGED <<srvVars, anVars>>
    /\ pc = "open"
    /\ \/ \* VideoFileClip raises
          /\ exc' = "OSError"
          /\ pc' = "raised"
          /\ video' = video
       \/ /\ ~has_audio
          /\ video' = "closed"
          /\ exc' = "ValueError"
          /\ pc' = "raised"
       \/ /\ has_audio
          /\ video' = "open"
          /\ pc' = "audio"
          /\ exc' = exc
    /\ UNCHANGED <<apInputs, caller, capture, duration, scene_list, scene_idx,
                   scenes, start_time, end_time, num_frames, i, keyframes, disk,
                   frame_requests, runVars>>

\* process, lines 73-85, with _extract_full_audio, lines 240-251.
ExtractAudio ==
    /\ UNCHANGED <<srvVars, anVars>>
    /\ pc = "audio"
    /\ \/ \* write_audiofile or AudioSegment.from_file raises
          /\ \E e \in LibraryErrors : exc' = e
          /\ pc' = "raised"
          /\ \E written \in BOOLEAN :
                disk' = IF written THEN WriteFiles(disk, FullAudioFile) ELSE disk
          /\ UNCHANGED <<scenes, scene_idx, start_time, end_time, num_frames, i,
                         keyframes, caller>>
       \/ /\ disk' = WriteFiles(disk, FullAudioFile)
          /\ scenes' = <<>>
          /\ caller' = "process"
          /\ EnterScene(0, scene_list)
          /\ exc' = exc
    /\ UNCHANGED <<apInputs, capture, video, duration, scene_list,
                   frame_requests, runVars>>

\* _extract_keyframes, lines 183-194: one iteration of the loop.
ExtractKeyframe ==
    /\ UNCHANGED <<srvVars, anVars>>
    /\ pc = "keyframes"
    /\ i < num_frames
    /\ \/ \* get_frame cannot read the frame and raises: nothing catches it
          /\ \E e \in LibraryErrors : exc' = e
          /\ pc' = "raised"
          /\ frame_requests' = Append(frame_requests,
                                      FrameRequest(start_time, end_time,
                                                   num_frames, i, clip_duration,
                                                   FALSE))
          /\ UNCHANGED <<i, keyframes>>
       \/ /\ keyframes' = Append(keyframes,
                                 Keyframe(start_time, end_time, num_frames, i,
                                          clip_duration))
          /\ frame_requests' = Append(frame_requests,
                                      FrameRequest(start_time, end_time,
                                                   num_frames, i, clip_duration,
                                                   TRUE))
          /\ i' = i + 1
          /\ UNCHANGED <<pc, exc>>
    /\ UNCHANGED <<apInputs, caller, capture, video, duration, scene_list,
                   scene_idx, scenes, start_time, end_time, num_frames, disk,
                   runVars>>

\* _extract_keyframes, line 196: the loop is over.
ExtractKeyframesReturn ==
    /\ UNCHANGED <<srvVars, anVars>>
    /\ pc = "keyframes"
    /\ i = num_frames
    /\ pc' = IF caller = "process" THEN "save" ELSE "kf_returned"
    /\ UNCHANGED <<apInputs, caller, exc, capture, video, duration, scene_list,
                   scene_idx, scenes, start_time, end_time, num_frames, i,
                   keyframes, disk, frame_requests, runVars>>

\* process, lines 94-117, with _save_scene_segments, lines 214-231.
SaveScene ==
    /\ UNCHANGED <<srvVars, anVars>>
    /\ pc = "save"
    /\ \/ \* export or save raises, after the audio or before it
          /\ save_segments
          /\ \E e \in LibraryErrors : exc' = e
          /\ pc' = "raised"
          /\ \E written \in BOOLEAN :
                disk' = IF written
                        THEN WriteFiles(disk, SceneAudioFile(scene_idx, start_time,
                                                             end_time))
                        ELSE disk
          /\ UNCHANGED <<scenes, scene_idx, start_time, end_time, num_frames, i,
                         keyframes>>
       \/ /\ disk' = IF save_segments
                      THEN WriteFiles(disk, SceneFiles(scene_idx, start_time,
                                                       end_time, keyframes))
                      ELSE disk
          /\ scenes' = Append(scenes, SceneSegment(scene_idx, start_time, end_time,
                                                   keyframes, save_segments))
          /\ EnterScene(scene_idx + 1, scene_list)
          /\ exc' = exc
    /\ UNCHANGED <<apInputs, caller, capture, video, duration, scene_list,
                   frame_requests, runVars>>

\* process, lines 120-133.
CloseAndReturn ==
    /\ UNCHANGED <<srvVars, anVars>>
    /\ pc = "close"
    /\ video' = "closed"
    /\ pc' = "returned"
    /\ UNCHANGED <<apInputs, caller, exc, capture, duration, scene_list, scene_idx,
                   scenes, start_time, end_time, num_frames, i, keyframes, disk,
                   frame_requests, runVars>>

\* AudioProcessor(video_path).process(save_segments) once more over the same
\* video, after a call that returned: __init__, lines 24-35, makes a new
\* processor with self.video = None; what the earlier call wrote is still on
\* disk.  The first call's result is kept for comparison.
ProcessAgain ==
    /\ UNCHANGED <<srvVars, anVars>>
    /\ pc = "returned"
    /\ run_no < MaxRuns
    /\ run_no' = run_no + 1
    /\ first_run' = IF run_no = 1
                    THEN [scenes |-> scenes, requests |-> frame_requests,
                          disk |-> disk, done |-> TRUE]
                    ELSE first_run
    /\ pc' = "detect"
    /\ capture' = "none"
    /\ video' = "none"
    /\ frame_requests' = <<>>
    /\ UNCHANGED <<apInputs, caller, exc, duration, scene_list, scene_idx, scenes,
                   start_time, end_time, num_frames, i, keyframes, disk>>

\* The state after AudioProcessor(video_path), before process().
InitProcess ==
    /\ nframes \in 0..MaxFrames
    /\ cuts \in SUBSET (1..(nframes - 1))
    /\ has_audio \in BOOLEAN
    /\ clip_duration \in ClipDurations
    /\ full_audio \in TrackLengths
    /\ save_segments \in BOOLEAN
    /\ fps \in FrameRates
    /\ pc = "detect"
    /\ caller = "process"
    /\ exc = "none"
    /\ capture = "none"
    /\ video = "none"
    /\ duration = 0
    /\ scene_list = <<>>
    /\ scene_idx = 0
    /\ scenes = <<>>
    /\ start_time = 0
    /\ end_time = 0
    /\ num_frames = ProcessNumFrames
    /\ i = 0
    /\ keyframes = <<>>
    /\ disk = EmptyDisk
    /\ frame_requests = <<>>
    /\ run_no = 1
    /\ first_run = NoRun

\* A direct call _extract_keyframes(start, end, n) on an open clip.
InitKeyframes ==
    /\ nframes = 0
    /\ cuts = {}
    /\ has_audio = TRUE
    /\ clip_duration \in ClipDurations
    /\ full_audio = 0
    /\ save_segments = FALSE
    /\ fps \in FrameRates
    /\ pc = "keyframes"
    /\ caller = "direct"
    /\ exc = "none"
    /\ capture = "none"
    /\ video = "open"
    /\ duration = 0
    /\ scene_list = <<>>
    /\ scene_idx = 0
    /\ scenes = <<>>
    /\ \E s \in 0..MaxFrames, e \in 0..MaxFrames :
          /\ s <= e
          /\ start_time = FramesToSeconds(s, fps)
          /\ end_time = FramesToSeconds(e, fps)
    /\ num_frames \in 1..MaxKeyframes
    /\ i = 0
    /\ keyframes = <<>>
    /\ disk = EmptyDisk
    /\ frame_requests = <<>>
    /\ run_no = 1
    /\ first_run = NoRun

NextProcess ==
    \/ DetectScenes
    \/ OpenVideo
    \/ ExtractAudio
    \/ ExtractKeyframe
    \/ ExtractKeyframesReturn
    \/ SaveScene
    \/ CloseAndReturn

NextKeyframes ==
    \/ ExtractKeyframe
    \/ ExtractKeyframesReturn

InitProcessOnly == InitProcess /\ IdleServer /\ IdleAnalyzers

InitKeyframesOnly == InitKeyframes /\ IdleServer /\ IdleAnalyzers

SpecProcess == InitProcessOnly /\ [][NextProcess]_vars

SpecKeyframes == InitKeyframesOnly /\ [][NextKeyframes]_vars

NextRerun ==
    \/ NextProcess
    \/ ProcessAgain

SpecRerun == InitProcessOnly /\ [][NextRerun]_vars

\* -------------------------------------------------- AudioProcessor: claims

\* C3: process closes the VideoFileClip handle on every exit path: whenever
\* process has returned or raised, self.video is not left open.
C3_VideoClosedOnEveryExit ==
    pc \in {"returned", "raised"} => video # "open"

\* C7: when scene detection returns an empty list, a successful process
\* returns exactly one scene, with index 0, from 0 to duration; a successful
\* process never returns zero scenes.
C7_EmptySceneListGivesOneScene ==
    pc = "returned" =>
        /\ Len(scenes) >= 1
        /\ GetSceneList(cuts, nframes) = <<>> =>
              /\ Len(scenes) = 1
              /\ scenes[1].scene_index = 0
              /\ scenes[1].start_time = 0
              /\ scenes[1].end_time = duration

C7_Witness ==
    /\ pc = "returned"
    /\ GetSceneList(cuts, nframes) = <<>>
    /\ nframes = MaxFrames
    /\ Len(scenes) = 1
    /\ scenes[1].end_time = duration

\* C8: the scenes of a successful process, in index order, are contiguous and
\* non-overlapping and cover [0, duration]: the first starts at 0, each starts
\* where the previous one ends, each has start_time < end_time, and the last
\* ends at duration.
C8_ScenesCoverDuration ==
    pc = "returned" =>
        /\ Len(scenes) >= 1
        /\ scenes[1].start_time = 0
        /\ scenes[Len(scenes)].end_time = duration
        /\ \A k \in 1..Len(scenes) : scenes[k].start_time < scenes[k].end_time
        /\ \A k \in 2..Len(scenes) : scenes[k].start_time = scenes[k - 1].end_time

\* C9: _extract_keyframes returns exactly N keyframes, the i-th requested at
\* start + (end - start) * i/(N-1) before clamping, and at the midpoint
\* start + (end - start)/2 when N = 1.
C9_KeyframeTimestamps ==
    /\ pc = "kf_returned" => Len(keyframes) = num_frames
    /\ \A j \in 1..Len(keyframes) :
          IF num_frames > 1
          THEN (num_frames - 1) * (keyframes[j].raw - start_time)
                   = (end_time - start_time) * (j - 1)
          ELSE 2 * (keyframes[j].raw - start_time) = end_time - start_time

C9_Witness ==
    /\ pc = "kf_returned"
    /\ num_frames = ProcessNumFrames
    /\ start_time < end_time
    /\ Len(keyframes) = ProcessNumFrames
    /\ keyframes[2].raw > keyframes[1].raw

\* C10: every timestamp handed to the frame decoder is at most the clip's
\* duration minus 0.01 s, and the timestamps of one scene are requested in
\* non-decreasing order.
C10_ClampedAndAscending ==
    /\ \A j \in 1..Len(keyframes) : keyframes[j].at <= clip_duration - Eps
    /\ (pc = "keyframes" /\ i < num_frames) =>
          /\ Clamp(Timestamp(start_time, end_time, num_frames, i), clip_duration)
                 <= clip_duration - Eps
          /\ \A j \in 1..Len(keyframes) :
                 keyframes[j].at
                     <= Clamp(Timestamp(start_time, end_time, num_frames, i),
                              clip_duration)
    /\ \A j \in 1..Len(keyframes) : \A k \in j..Len(keyframes) :
          keyframes[j].at <= keyframes[k].at

C10_Witness ==
    /\ pc = "kf_returned"
    /\ Len(keyframes) >= 3
    /\ keyframes[1].at = keyframes[1].raw
    /\ keyframes[1].at < keyframes[2].at
    /\ keyframes[Len(keyframes)].raw > clip_duration - Eps
    /\ keyframes[Len(keyframes)].at = clip_duration - Eps

\* One frame of the video, as a time.
OneFrame == TicksPerSecond \div fps

RECURSIVE IsRetry(_)
\* The j-th get_frame call is the retry of the one before it: that one
\* failed, was not a retry itself, and asked for the frame after this one.
IsRetry(j) ==
    /\ j > 1
    /\ ~frame_requests[j - 1].ok
    /\ ~IsRetry(j - 1)
    /\ frame_requests[j].at = frame_requests[j - 1].at - OneFrame

\* C11: a frame the decoder cannot read is requested once more, one frame
\* earlier; if that fails too the keyframe is left out, and in no case does
\* the unreadable frame make the process call fail.
C11_UnreadableFrameIsRetriedOnce ==
    /\ \A j \in 1..Len(frame_requests) :
          ~frame_requests[j].ok => pc # "raised"
    /\ \A j \in 1..(Len(frame_requests) - 1) :
          (~frame_requests[j].ok /\ ~IsRetry(j)) => IsRetry(j + 1)

\* int(t * 1000): m is the whole number of milliseconds in the time t.
IsWholeMillis(m, t) ==
    /\ m * TicksPerSecond <= t * 1000
    /\ t * 1000 < (m + 1) * TicksPerSecond

\* C12: the audio slice of every scene is the range
\* [int(start*1000), int(end*1000)) of the full track, as far as the track
\* goes; the slices of consecutive scenes neither overlap nor leave a gap,
\* and together, in index order, they are the track over
\* [0, int(duration*1000)).
C12_AudioSlicesPartitionTrack ==
    pc = "returned" =>
        /\ \A k \in 1..Len(scenes) :
              \E a \in 0..Millis(duration), b \in 0..Millis(duration) :
                  /\ IsWholeMillis(a, scenes[k].start_time)
                  /\ IsWholeMillis(b, scenes[k].end_time)
                  /\ scenes[k].audio = <<Min(a, full_audio), Min(b, full_audio)>>
        /\ \A k \in 1..Len(scenes) : scenes[k].audio[1] <= scenes[k].audio[2]
        /\ \A k \in 2..Len(scenes) : scenes[k].audio[1] = scenes[k - 1].audio[2]
        /\ scenes[1].audio[1] = 0
        /\ \E d \in 0..Millis(duration) :
              /\ IsWholeMillis(d, duration)
              /\ scenes[Len(scenes)].audio[2] = Min(d, full_audio)

C12_Witness ==
    /\ pc = "returned"
    /\ Len(scenes) = MaxFrames
    /\ \A k \in 1..Len(scenes) : scenes[k].audio[1] < scenes[k].audio[2]
    /\ scenes[2].audio[1] = scenes[1].audio[2]
    /\ scenes[Len(scenes)].audio[2] = Millis(duration)

C14_NoAudioFailsWholeRun ==
    /\ ~has_audio =>
          /\ pc \in {"detect", "open", "raised"}
          /\ scenes = <<>>
          /\ frame_requests = <<>>
          /\ disk = EmptyDisk
    /\ exc = "ValueError" =>
          /\ ~has_audio
          /\ pc = "raised"
          /\ video = "closed"

C14_Witness ==
    /\ ~has_audio
    /\ nframes = MaxFrames
    /\ cuts # {}
    /\ scene_list # <<>>
    /\ pc = "raised"
    /\ exc = "ValueError"
    /\ disk = EmptyDisk

\* ------------------------------------------------ VideoPipeline: the steps

IdleProcess ==
    /\ nframes = 0
    /\ cuts = {}
    /\ has_audio = TRUE
    /\ clip_duration = 0
    /\ full_audio = 0
    /\ save_segments = TRUE
    /\ fps = 25
    /\ pc = "idle"
    /\ caller = "process"
    /\ exc = "none"
    /\ capture = "none"
    /\ video = "none"
    /\ duration = 0
    /\ scene_list = <<>>
    /\ scene_idx = 0
    /\ scenes = <<>>
    /\ start_time = 0
    /\ end_time = 0
    /\ num_frames = ProcessNumFrames
    /\ i = 0
    /\ keyframes = <<>>
    /\ disk = EmptyDisk
    /\ frame_requests = <<>>
    /\ run_no = 1
    /\ first_run = NoRun

\* VideoPipeline.__init__, lines 7-9, called on main.py line 149.
StartPipeline(r) ==
    /\ UNCHANGED <<apVars, anVars>>
    /\ rq_pc[r] = "pipeline"
    /\ self_analyzers' = [self_analyzers EXCEPT ![r] = DiscoverAnalyzers(namespace)]
    /\ run_state' = [run_state EXCEPT ![r] = "running"]
    /\ rq_pc' = [rq_pc EXCEPT ![r] = "run"]
    /\ UNCHANGED <<srvInputs, fs, video_path, attempts, process_errors, raised, response, idx,
                   analyzer, analysis_results, handles, removed>>

\* run, lines 26-27: analyzer_class(self.video_path).  An exception leaves
\* run and reaches the except clauses of upload_video.
Instantiate(r) ==
    /\ UNCHANGED <<apVars, anVars>>
    /\ run_state[r] = "running"
    /\ idx[r] < Len(self_analyzers[r])
    /\ analyzer[r] = "none"
    /\ \E o \in InitOutcomes(self_analyzers[r][idx[r] + 1]) :
          /\ handles' = [handles EXCEPT ![r] = @ + (IF o.leaks THEN 1 ELSE 0)]
          /\ IF o.raises
             THEN /\ run_state' = [run_state EXCEPT ![r] = "raised"]
                  /\ raised' = [raised EXCEPT ![r] = o.exc]
                  /\ rq_pc' = [rq_pc EXCEPT ![r] = "except"]
                  /\ UNCHANGED analyzer
             ELSE /\ analyzer' = [analyzer EXCEPT ![r] = "live"]
                  /\ UNCHANGED <<run_state, raised, rq_pc>>
    /\ UNCHANGED <<srvInputs, fs, video_path, attempts, process_errors, response, self_analyzers,
                   idx, analysis_results, removed>>

\* run, lines 28-32: analyzer.run() and the append.
RunAnalyzer_SkipOnRaise(r) ==
    /\ UNCHANGED <<apVars, anVars>>
    /\ run_state[r] = "running"
    /\ analyzer[r] = "live"
    /\ \E o \in RunOutcomes(self_analyzers[r][idx[r] + 1]) :
          /\ handles' = [handles EXCEPT ![r] = @ + (IF o.leaks THEN 1 ELSE 0)]
          /\ analysis_results' =
                IF o.raises THEN analysis_results
                ELSE [analysis_results EXCEPT ![r] =
                         Append(@, [analyzer |-> self_analyzers[r][idx[r] + 1],
                                    result |-> "result"])]
          /\ idx' = [idx EXCEPT ![r] = @ + 1]
          /\ analyzer' = [analyzer EXCEPT ![r] = "none"]
          /\ UNCHANGED <<run_state, raised, rq_pc>>
    /\ UNCHANGED <<srvInputs, fs, video_path, attempts, process_errors, response, self_analyzers,
                   removed>>

RunAnalyzer(r) ==
    /\ UNCHANGED <<apVars, anVars>>
    /\ run_state[r] = "running"
    /\ analyzer[r] = "live"
    /\ \E o \in RunOutcomes(self_analyzers[r][idx[r] + 1]) :
          /\ handles' = [handles EXCEPT ![r] = @ + (IF o.leaks THEN 1 ELSE 0)]
          /\ IF o.raises
             THEN /\ run_state' = [run_state EXCEPT ![r] = "raised"]
                  /\ raised' = [raised EXCEPT ![r] = o.exc]
                  /\ rq_pc' = [rq_pc EXCEPT ![r] = "except"]
                  /\ UNCHANGED <<analysis_results, idx, analyzer>>
             ELSE /\ analysis_results' =
                        [analysis_results EXCEPT ![r] =
                            Append(@, [analyzer |-> self_analyzers[r][idx[r] + 1],
                                       result |-> "result"])]
                  /\ idx' = [idx EXCEPT ![r] = @ + 1]
                  /\ analyzer' = [analyzer EXCEPT ![r] = "none"]
                  /\ UNCHANGED <<run_state, raised, rq_pc>>
    /\ UNCHANGED <<srvInputs, fs, video_path, attempts, process_errors, response, self_analyzers,
                   removed>>

\* run, lines 34-72, and the return on main.py line 152: the file is removed
\* if it exists.  os.remove raises only when the file went away after the
\* os.path.exists check; that is caught and printed (lines 69-70) and leaves
\* the state of the branch that found no file.
FinishRun(r) ==
    /\ UNCHANGED <<apVars, anVars>>
    /\ run_state[r] = "running"
    /\ idx[r] = Len(self_analyzers[r])
    /\ \/ /\ VideoFile(video_path[r]) \in fs
          /\ fs' = fs \ {VideoFile(video_path[r])}
          /\ removed' = [removed EXCEPT ![r] = @ + 1]
       \/ /\ VideoFile(video_path[r]) \notin fs
          /\ UNCHANGED <<fs, removed>>
    /\ run_state' = [run_state EXCEPT ![r] = "returned"]
    /\ response' = [response EXCEPT ![r] = ResultResponse(analysis_results[r])]
    /\ rq_pc' = [rq_pc EXCEPT ![r] = "done"]
    /\ UNCHANGED <<srvInputs, video_path, attempts, process_errors, raised, self_analyzers, idx,
                   analyzer, analysis_results, handles>>

\* ------------------------------------------------- upload_video: the steps

\* upload_video, lines 105-125 and 145-146: hash the upload, save it unless
\* the file exists, and see whether its frames are already there.
SaveUpload(r) ==
    /\ UNCHANGED <<apVars, anVars>>
    /\ rq_pc[r] = "idle"
    /\ video_path' = [video_path EXCEPT ![r] = upload[r]]
    /\ fs' = fs \cup {VideoFile(upload[r])}
    /\ rq_pc' = [rq_pc EXCEPT ![r] =
                    IF FramesDir(upload[r].hash) \in fs THEN "pipeline"
                    ELSE "preprocess"]
    /\ UNCHANGED <<srvInputs, attempts, process_errors, raised, response, plVars>>

\* What a failing process leaves behind: nothing, the full audio, or the
\* full audio and the frames of some scenes.
PartialArtifacts(h) == {{}, {AudioFile(h)}, {AudioFile(h), FramesDir(h)}}

\* The inner except clause, main.py lines 133-144: retry after a conversion,
\* or let the exception reach the outer clauses.
AfterProcessError_AnyOSError(r, e) ==
    IF /\ e.type = "OSError"
       /\ video_path[r].ext = ".webm"
    THEN /\ rq_pc' = [rq_pc EXCEPT ![r] = "retry"]
         /\ UNCHANGED raised
    ELSE /\ rq_pc' = [rq_pc EXCEPT ![r] = "except"]
         /\ raised' = [raised EXCEPT ![r] = e]

AfterProcessError(r, e) ==
    IF /\ e.type = "OSError"
       /\ video_path[r].ext = ".webm"
       /\ (HasFailedToRead(e.msg) \/ HasMoviePyError(e.msg))
    THEN /\ rq_pc' = [rq_pc EXCEPT ![r] = "retry"]
         /\ UNCHANGED raised
    ELSE /\ rq_pc' = [rq_pc EXCEPT ![r] = "except"]
         /\ raised' = [raised EXCEPT ![r] = e]

\* upload_video, lines 129-144: AudioProcessor(video_path), whose __init__
\* (audio_processor.py lines 24-35, 265-310) converts a .webm to .mp4 first,
\* and process().
Preprocess(r) ==
    /\ UNCHANGED <<apVars, anVars>>
    /\ rq_pc[r] = "preprocess"
    /\ LET path == video_path[r]
           h == path.hash
           webm == path.ext = ".webm"
           source == VideoFile(IF webm THEN Mp4Path(path) ELSE path)
           convertible == VideoFile(path) \in fs
       IN \/ \* the conversion fails: ffmpeg error, timeout, ffmpeg missing
             /\ webm
             /\ source \notin fs
             /\ rq_pc' = [rq_pc EXCEPT ![r] = "except"]
             /\ raised' = [raised EXCEPT ![r] = [type |-> "Exception", msg |-> "other"]]
             /\ UNCHANGED <<fs, attempts, process_errors>>
          \/ \* process raises
             /\ source \in fs \/ (webm /\ convertible)
             /\ attempts' = [attempts EXCEPT ![r] = @ + 1]
             /\ \E e \in ProcessErrors, left \in PartialArtifacts(h) :
                   /\ fs' = fs \cup {source} \cup left
                   /\ process_errors' = [process_errors EXCEPT ![r] = Append(@, e)]
                   /\ AfterProcessError(r, e)
          \/ \* process returns
             /\ source \in fs \/ (webm /\ convertible)
             /\ attempts' = [attempts EXCEPT ![r] = @ + 1]
             /\ fs' = fs \cup {source, AudioFile(h), FramesDir(h)}
             /\ rq_pc' = [rq_pc EXCEPT ![r] = "pipeline"]
             /\ UNCHANGED <<raised, process_errors>>
    /\ UNCHANGED <<srvInputs, video_path, response, plVars>>

\* upload_video, lines 136-142: convert_webm_to_mp4 (lines 48-92), then a
\* second AudioProcessor on the .mp4.  Whatever is raised here reaches the
\* outer except clauses.
Retry(r) ==
    /\ UNCHANGED <<apVars, anVars>>
    /\ rq_pc[r] = "retry"
    /\ LET path == video_path[r]
           h == path.hash
           source == VideoFile(Mp4Path(path))
           convertible == VideoFile(path) \in fs
       IN \/ \* the conversion fails
             /\ source \notin fs
             /\ rq_pc' = [rq_pc EXCEPT ![r] = "except"]
             /\ raised' = [raised EXCEPT ![r] = [type |-> "Exception", msg |-> "other"]]
             /\ UNCHANGED <<fs, attempts, process_errors, video_path>>
          \/ \* process raises again
             /\ source \in fs \/ convertible
             /\ video_path' = [video_path EXCEPT ![r] = Mp4Path(path)]
             /\ attempts' = [attempts EXCEPT ![r] = @ + 1]
             /\ \E e \in ProcessErrors, left \in PartialArtifacts(h) :
                   /\ fs' = fs \cup {source} \cup left
                   /\ process_errors' = [process_errors EXCEPT ![r] = Append(@, e)]
                   /\ raised' = [raised EXCEPT ![r] = e]
             /\ rq_pc' = [rq_pc EXCEPT ![r] = "except"]
          \/ \* process returns
             /\ source \in fs \/ convertible
             /\ video_path' = [video_path EXCEPT ![r] = Mp4Path(path)]
             /\ attempts' = [attempts EXCEPT ![r] = @ + 1]
             /\ fs' = fs \cup {source, AudioFile(h), FramesDir(h)}
             /\ rq_pc' = [rq_pc EXCEPT ![r] = "pipeline"]
             /\ UNCHANGED <<raised, process_errors>>
    /\ UNCHANGED <<srvInputs, response, plVars>>

\* upload_video, lines 154-181: the outer except clauses.
HandleException(r) ==
    /\ UNCHANGED <<apVars, anVars>>
    /\ rq_pc[r] = "except"
    /\ response' = [response EXCEPT ![r] =
          IF raised[r].type = "OSError"
          THEN IF HasFirstFrame(raised[r].msg) \/ HasMoviePyError(raised[r].msg)
               THEN ErrorResponse("error", 400)
               ELSE ErrorResponse("unhandled", 500)
          ELSE ErrorResponse("error", 500)]
    /\ rq_pc' = [rq_pc EXCEPT ![r] = "done"]
    /\ UNCHANGED <<srvInputs, fs, video_path, attempts, process_errors, raised, plVars>>

\* ---------------------------------------------- transcribe_video: the steps

\* uploads/transcripts/{file_hash}_audio_transcript.json
TranscriptFile(h) == <<"transcript", h, "">>

\* video_path = None
NoPath == [hash |-> "none", ext |-> ""]

\* The JSONResponse of lines 229-239 (cached) and 287-297 (not cached).
TranscriptResponse_NeverCached(cached) ==
    [kind |-> "transcript", status |-> 200, cached |-> FALSE]

TranscriptResponse(cached) ==
    [kind |-> "transcript", status |-> 200, cached |-> cached]

\* transcribe_video, lines 193-212: reject an upload that is not a video,
\* else hash it and save it unless the file exists.
TranscriptSaveUpload(r) ==
    /\ UNCHANGED exceptHandlers
    /\ rq_pc[r] = "t_idle"
    /\ \/ \* line 195: the HTTPException is caught by line 299
          /\ video_path' = [video_path EXCEPT ![r] = NoPath]
          /\ raised' = [raised EXCEPT ![r] = [type |-> "Exception", msg |-> "other"]]
          /\ rq_pc' = [rq_pc EXCEPT ![r] = "t_except"]
          /\ UNCHANGED <<fs, video_existed>>
       \/ /\ video_path' = [video_path EXCEPT ![r] = upload[r]]
          /\ video_existed' = [video_existed EXCEPT ![r] = VideoFile(upload[r]) \in fs]
          /\ fs' = fs \cup {VideoFile(upload[r])}
          /\ rq_pc' = [rq_pc EXCEPT ![r] = "t_lookup"]
          /\ UNCHANGED raised
    /\ UNCHANGED <<srvInputs, attempts, process_errors, response, plVars,
                   transcriptions>>

\* transcribe_video, lines 222-248 and 271-273: answer from the transcript
\* file if there is one, else see whether the audio and the frames are there.
TranscriptLookup(r) ==
    /\ UNCHANGED exceptHandlers
    /\ rq_pc[r] = "t_lookup"
    /\ LET h == video_path[r].hash
       IN IF TranscriptFile(h) \in fs
          THEN /\ response' = [response EXCEPT ![r] = TranscriptResponse(TRUE)]
               /\ rq_pc' = [rq_pc EXCEPT ![r] = "done"]
          ELSE /\ rq_pc' = [rq_pc EXCEPT ![r] =
                              IF AudioFile(h) \notin fs \/ FramesDir(h) \notin fs
                              THEN "t_preprocess" ELSE "t_transcribe"]
               /\ UNCHANGED response
    /\ UNCHANGED <<srvInputs, fs, video_path, attempts, process_errors, raised,
                   plVars, trVars>>

\* The inner except clause, main.py lines 255-270.
TranscriptAfterProcessError(r, e) ==
    IF /\ e.type = "OSError"
       /\ video_path[r].ext = ".webm"
       /\ (HasFailedToRead(e.msg) \/ HasMoviePyError(e.msg))
    THEN /\ rq_pc' = [rq_pc EXCEPT ![r] = "t_retry"]
         /\ UNCHANGED raised
    ELSE /\ rq_pc' = [rq_pc EXCEPT ![r] = "t_except"]
         /\ raised' = [raised EXCEPT ![r] = e]

\* transcribe_video, lines 250-270: AudioProcessor(video_path), whose
\* __init__ converts a .webm to .mp4 first, and process().
TranscriptPreprocess(r) ==
    /\ UNCHANGED exceptHandlers
    /\ rq_pc[r] = "t_preprocess"
    /\ LET path == video_path[r]
           h == path.hash
           webm == path.ext = ".webm"
           source == VideoFile(IF webm THEN Mp4Path(path) ELSE path)
           convertible == VideoFile(path) \in fs
       IN \/ \* the conversion fails, or the file to open is gone
             /\ source \notin fs
             /\ rq_pc' = [rq_pc EXCEPT ![r] = "t_except"]
             /\ raised' = [raised EXCEPT ![r] = [type |-> "Exception", msg |-> "other"]]
             /\ UNCHANGED <<fs, attempts, process_errors>>
          \/ \* process raises
             /\ source \in fs \/ (webm /\ convertible)
             /\ attempts' = [attempts EXCEPT ![r] = @ + 1]
             /\ \E e \in ProcessErrors, left \in PartialArtifacts(h) :
                   /\ fs' = fs \cup {source} \cup left
                   /\ process_errors' = [process_errors EXCEPT ![r] = Append(@, e)]
                   /\ TranscriptAfterProcessError(r, e)
          \/ \* process returns
             /\ source \in fs \/ (webm /\ convertible)
             /\ attempts' = [attempts EXCEPT ![r] = @ + 1]
             /\ fs' = fs \cup {source, AudioFile(h), FramesDir(h)}
             /\ rq_pc' = [rq_pc EXCEPT ![r] = "t_transcribe"]
             /\ UNCHANGED <<raised, process_errors>>
    /\ UNCHANGED <<srvInputs, video_path, response, plVars, trVars>>

\* transcribe_video, lines 258-268: convert_webm_to_mp4 (lines 48-92), then
\* a second AudioProcessor on the .mp4.
TranscriptRetry(r) ==
    /\ UNCHANGED exceptHandlers
    /\ rq_pc[r] = "t_retry"
    /\ LET path == video_path[r]
           h == path.hash
           source == VideoFile(Mp4Path(path))
           convertible == VideoFile(path) \in fs
       IN \/ \* the conversion fails
             /\ source \notin fs
             /\ rq_pc' = [rq_pc EXCEPT ![r] = "t_except"]
             /\ raised' = [raised EXCEPT ![r] = [type |-> "Exception", msg |-> "other"]]
             /\ UNCHANGED <<fs, attempts, process_errors, video_path>>
          \/ \* process raises again
             /\ source \in fs \/ convertible
             /\ video_path' = [video_path EXCEPT ![r] = Mp4Path(path)]
             /\ attempts' = [attempts EXCEPT ![r] = @ + 1]
             /\ \E e \in ProcessErrors, left \in PartialArtifacts(h) :
                   /\ fs' = fs \cup {source} \cup left
                   /\ process_errors' = [process_errors EXCEPT ![r] = Append(@, e)]
                   /\ raised' = [raised EXCEPT ![r] = e]
             /\ rq_pc' = [rq_pc EXCEPT ![r] = "t_except"]
          \/ \* process returns
             /\ source \in fs \/ convertible
             /\ video_path' = [video_path EXCEPT ![r] = Mp4Path(path)]
             /\ attempts' = [attempts EXCEPT ![r] = @ + 1]
             /\ fs' = fs \cup {source, AudioFile(h), FramesDir(h)}
             /\ rq_pc' = [rq_pc EXCEPT ![r] = "t_transcribe"]
             /\ UNCHANGED <<raised, process_errors>>
    /\ UNCHANGED <<srvInputs, response, plVars, trVars>>

\* transcribe_video, lines 277-297: TranscriptionService(), which raises
\* without an API key, and transcribe_with_retry(max_retries=2), which
\* returns after an attempt that saved the transcript or raises after two
\* failed ones; a failed attempt may have saved the transcript before it
\* failed (transcription_service.py lines 104-116).
Transcribe(r) ==
    /\ UNCHANGED exceptHandlers
    /\ rq_pc[r] = "t_transcribe"
    /\ LET h == video_path[r].hash
       IN \/ \* TranscriptionService() raises ValueError
             /\ raised' = [raised EXCEPT ![r] = [type |-> "Exception", msg |-> "other"]]
             /\ rq_pc' = [rq_pc EXCEPT ![r] = "t_except"]
             /\ UNCHANGED <<fs, transcriptions, response>>
          \/ \* transcribe_with_retry raises
             /\ transcriptions' = [transcriptions EXCEPT ![r] = @ + 1]
             /\ \E saved \in BOOLEAN :
                   fs' = IF saved THEN fs \cup {TranscriptFile(h)} ELSE fs
             /\ raised' = [raised EXCEPT ![r] = [type |-> "Exception", msg |-> "other"]]
             /\ rq_pc' = [rq_pc EXCEPT ![r] = "t_except"]
             /\ UNCHANGED response
          \/ \* transcribe_with_retry returns
             /\ transcriptions' = [transcriptions EXCEPT ![r] = @ + 1]
             /\ fs' = fs \cup {TranscriptFile(h)}
             /\ response' = [response EXCEPT ![r] = TranscriptResponse(FALSE)]
             /\ rq_pc' = [rq_pc EXCEPT ![r] = "done"]
             /\ UNCHANGED raised
    /\ UNCHANGED <<srvInputs, video_path, attempts, process_errors, plVars,
                   video_existed>>

\* transcribe_video, lines 299-318: the except clause removes video_path if
\* this request saved the upload, and answers with status 500.
TranscriptHandleException(r) ==
    /\ UNCHANGED exceptHandlers
    /\ rq_pc[r] = "t_except"
    /\ fs' = IF /\ ~video_existed[r]
                /\ video_path[r] # NoPath
                /\ VideoFile(video_path[r]) \in fs
             THEN fs \ {VideoFile(video_path[r])}
             ELSE fs
    /\ response' = [response EXCEPT ![r] = ErrorResponse("error", 500)]
    /\ rq_pc' = [rq_pc EXCEPT ![r] = "done"]
    /\ UNCHANGED <<srvInputs, video_path, attempts, process_errors, raised, plVars,
                   trVars>>

\* Two workers, each about to receive an upload.
Init ==
    /\ IdleProcess
    /\ IdleAnalyzers
    /\ namespace \in SUBSET AnalyzerClasses
    /\ fs = {}
    /\ upload \in [Requests -> Uploads]
    /\ rq_pc = [r \in Requests |-> "idle"]
    /\ video_path = upload
    /\ attempts = [r \in Requests |-> 0]
    /\ process_errors = [r \in Requests |-> <<>>]
    /\ raised = [r \in Requests |-> NoException]
    /\ response = [r \in Requests |-> NoResponse]
    /\ run_state = [r \in Requests |-> "none"]
    /\ self_analyzers = [r \in Requests |-> <<>>]
    /\ idx = [r \in Requests |-> 0]
    /\ analyzer = [r \in Requests |-> "none"]
    /\ analysis_results = [r \in Requests |-> <<>>]
    /\ handles = [r \in Requests |-> 0]
    /\ removed = [r \in Requests |-> 0]

\* One VideoPipeline, about to be constructed on a saved upload.
InitPipeline ==
    /\ IdleProcess
    /\ IdleAnalyzers
    /\ namespace \in SUBSET AnalyzerClasses
    /\ upload \in [Requests -> Uploads]
    /\ upload["r2"] = upload["r1"]
    /\ fs = {VideoFile(upload["r1"])}
    /\ rq_pc = [r \in Requests |-> IF r = "r1" THEN "pipeline" ELSE "absent"]
    /\ video_path = upload
    /\ attempts = [r \in Requests |-> 0]
    /\ process_errors = [r \in Requests |-> <<>>]
    /\ raised = [r \in Requests |-> NoException]
    /\ response = [r \in Requests |-> NoResponse]
    /\ run_state = [r \in Requests |-> "none"]
    /\ self_analyzers = [r \in Requests |-> <<>>]
    /\ idx = [r \in Requests |-> 0]
    /\ analyzer = [r \in Requests |-> "none"]
    /\ analysis_results = [r \in Requests |-> <<>>]
    /\ handles = [r \in Requests |-> 0]
    /\ removed = [r \in Requests |-> 0]

NextPipeline ==
    \E r \in Requests :
        \/ StartPipeline(r)
        \/ Instantiate(r)
        \/ RunAnalyzer(r)
        \/ FinishRun(r)

Next ==
    \E r \in Requests :
        \/ SaveUpload(r)
        \/ Preprocess(r)
        \/ Retry(r)
        \/ StartPipeline(r)
        \/ Instantiate(r)
        \/ RunAnalyzer(r)
        \/ FinishRun(r)
        \/ HandleException(r)

SpecPipeline == InitPipeline /\ [][NextPipeline]_vars

\* Two workers, each about to receive an upload for /analyze-video or for
\* /transcript.
InitHandlers ==
    /\ IdleProcess
    /\ IdleAnalyzers
    /\ namespace = {"IAFaceDetector"}
    /\ fs = {}
    /\ upload \in [Requests -> Uploads]
    /\ upload["r1"].hash = "h1"
    /\ rq_pc \in [Requests -> {"idle", "t_idle"}]
    /\ video_path = upload
    /\ attempts = [r \in Requests |-> 0]
    /\ process_errors = [r \in Requests |-> <<>>]
    /\ raised = [r \in Requests |-> NoException]
    /\ response = [r \in Requests |-> NoResponse]
    /\ run_state = [r \in Requests |-> "none"]
    /\ self_analyzers = [r \in Requests |-> <<>>]
    /\ idx = [r \in Requests |-> 0]
    /\ analyzer = [r \in Requests |-> "none"]
    /\ analysis_results = [r \in Requests |-> <<>>]
    /\ handles = [r \in Requests |-> 0]
    /\ removed = [r \in Requests |-> 0]

NextTranscript ==
    \E r \in Requests :
        \/ TranscriptSaveUpload(r)
        \/ TranscriptLookup(r)
        \/ TranscriptPreprocess(r)
        \/ TranscriptRetry(r)
        \/ Transcribe(r)
        \/ TranscriptHandleException(r)

NextHandlers == Next \/ NextTranscript

\* Two workers, each about to receive an upload for /transcript.
InitTranscript == InitHandlers /\ rq_pc = [r \in Requests |-> "t_idle"]

SpecTranscript == InitTranscript /\ [][NextTranscript]_vars

\* One process call on its own, or two workers serving the two endpoints
\* that call process.
InitDecode == InitProcessOnly \/ InitHandlers

NextDecode == NextProcess \/ NextHandlers

SpecDecode == InitDecode /\ [][NextDecode]_vars

InitTranscriptionOnly ==
    IdleProcess /\ IdleServer /\ IdleQuality /\ IdleFaces /\ IdleTranscripts
        /\ InitTranscription /\ IdleSafety /\ IdleSampling

SpecTranscription == InitTranscriptionOnly /\ [][NextTranscription]_vars

InitSafetyOnly ==
    IdleProcess /\ IdleServer /\ IdleQuality /\ IdleFaces /\ IdleTranscripts
        /\ IdleTranscription /\ InitSafety /\ IdleSampling

InitSeverityOnly ==
    IdleProcess /\ IdleServer /\ IdleQuality /\ IdleFaces /\ IdleTranscripts
        /\ IdleTranscription /\ InitSeverity /\ IdleSampling

InitSamplingOnly ==
    IdleProcess /\ IdleServer /\ IdleQuality /\ IdleFaces /\ IdleTranscripts
        /\ IdleTranscription /\ IdleSafety /\ InitSampling

SpecSampling == InitSamplingOnly /\ [][NextSampling]_vars

SpecSafety == InitSafetyOnly /\ [][NextSafety]_vars

SpecSeverity == InitSeverityOnly /\ [][NextSeverity]_vars

\* One call that uploads files to the service: transcribe_with_retry, or
\* check_safety.
InitUploads == InitTranscriptionOnly \/ InitSafetyOnly

NextUploads == NextTranscription \/ NextSafety

SpecUploads == InitUploads /\ [][NextUploads]_vars

\* The steps of transcribe_with_retry are the steps of one thread: whenever
\* one can be taken, one is taken.
FairSpecTranscription == SpecTranscription /\ WF_vars(NextTranscription)

SpecHandlers == InitHandlers /\ [][NextHandlers]_vars

NextQuality ==
    \/ ExtractFrames
    \/ ScoreFrame
    \/ ReturnReport

NextResolution == GetResolutionScoreCall

InitQualityOnly ==
    IdleProcess /\ IdleServer /\ InitQuality
        /\ IdleFaces /\ IdleTranscripts /\ IdleTranscription /\ IdleSafety /\ IdleSampling

InitResolutionOnly ==
    IdleProcess /\ IdleServer /\ InitResolution
        /\ IdleFaces /\ IdleTranscripts /\ IdleTranscription /\ IdleSafety /\ IdleSampling

InitFacesOnly ==
    IdleProcess /\ IdleServer /\ IdleQuality
        /\ InitFaces /\ IdleTranscripts /\ IdleTranscription /\ IdleSafety /\ IdleSampling

SpecFaces == InitFacesOnly /\ [][NextFaces]_vars

InitSaturationOnly ==
    IdleProcess /\ IdleServer /\ IdleQuality
        /\ InitSaturation /\ IdleTranscripts /\ IdleTranscription /\ IdleSafety /\ IdleSampling

SpecSaturation == InitSaturationOnly /\ [][NextFaces]_vars

SpecQuality == InitQualityOnly /\ [][NextQuality]_vars

SpecResolution == InitResolutionOnly /\ [][NextResolution]_vars

Spec == Init /\ [][Next]_vars

\* ------------------------------------- VideoPipeline and upload_video: claims

\* The analyzer names of a result list, in order.
Names(results) == [k \in 1..Len(results) |-> results[k].analyzer]

\* C1: a raising analyzer is recorded with an error marker in place of its
\* result and the analyzers after it still run; the raise never leaves
\* VideoPipeline.run, so a run that is over has returned, with one entry for
\* every analyzer.
C1_RaiseNeverEscapesRun ==
    \A r \in Requests :
        /\ run_state[r] # "raised"
        /\ run_state[r] = "returned" =>
              Len(analysis_results[r]) = Len(self_analyzers[r])

\* C15: no failure of the quality scorer reaches the orchestrator: run is
\* never left by an exception while VideoQualityAnalyzer is the analyzer at
\* hand, and once the loop is past it the results hold its report.
C15_QualityFailureNeverReachesRun ==
    \A r \in Requests :
        /\ run_state[r] = "raised" =>
              self_analyzers[r][idx[r] + 1] # "VideoQualityAnalyzer"
        /\ \A k \in 1..idx[r] :
              self_analyzers[r][k] = "VideoQualityAnalyzer" =>
                  analysis_results[r][k].analyzer = "VideoQualityAnalyzer"

\* C2: on every execution of run, whether the analyzers return or raise,
\* every capture an analyzer opened is released and the uploaded video file
\* is removed exactly once before control leaves run.
C2_VideoReleasedExactlyOnce ==
    \A r \in Requests :
        run_state[r] \in {"returned", "raised"} =>
            /\ removed[r] = 1
            /\ handles[r] = 0

\* C5: run returns exactly one entry per discovered analyzer, in the order of
\* discovery, which is the registration order of the classes the package
\* holds: once run is over, the names of its entries are that order.
C5_OneEntryPerAnalyzerInOrder ==
    \A r \in Requests :
        run_state[r] \in {"returned", "raised"} =>
            LET Registered(n) == n \in namespace
            IN Names(analysis_results[r]) = SelectSeq(RegistrationOrder, Registered)

\* C4: every /analyze-video request ends with exactly one response, which is
\* either a complete result, with one entry for every discovered analyzer
\* and the summary block, or an error; never a result list that misses an
\* analyzer's entry.
C4_CompleteResultOrError ==
    \A r \in Requests :
        /\ response[r].kind \in {"none", "result", "error", "unhandled"}
        /\ (rq_pc[r] = "done") = (response[r].kind # "none")
        /\ response[r].kind = "result" =>
              /\ Names(response[r].analyzers) = DiscoverAnalyzers(namespace)
              /\ response[r].llm_summary
              /\ response[r].status = 200
        /\ response[r].kind \in {"error", "unhandled"} =>
              /\ response[r].analyzers = <<>>
              /\ response[r].status \in {400, 500}

C4_Witness ==
    /\ response["r1"].kind = "result"
    /\ Len(response["r1"].analyzers) = 2
    /\ response["r2"].kind = "error"
    /\ run_state["r2"] = "raised"
    /\ Len(analysis_results["r2"]) = 1

MeanOfKept(Score(_)) ==
    Mean([k \in 1..Len(frames) |->
             IF frames[k].fails THEN 0 ELSE Score(frames[k])])

\* C16: an exception while computing a metric on one sampled frame is local
\* to that frame: the scores of the other frames are kept and the averaged
\* sub-scores of the report are at least what those frames alone give.
C16_FrameFailureIsLocal ==
    (vq_pc = "returned" /\ frames # <<>>) =>
        /\ vq_report.sharpness_score >= MeanOfKept(GetSharpnessScore)
        /\ vq_report.color_score >= MeanOfKept(GetColorBalanceScore)
        /\ vq_report.lighting_score >= MeanOfKept(GetLightingScore)

InUnitRange(x) == 0 <= x /\ x <= Scale

\* C17: every value of the report run returns lies in [0,1], whatever the
\* sampled frames are: none, 2-D frames, frames at the ends of the bands and
\* of the clipping penalty; so does every score collected on the way.
C17_ReportInUnitRange ==
    /\ vq_pc = "returned" =>
          /\ InUnitRange(vq_report.resolution_score)
          /\ InUnitRange(vq_report.sharpness_score)
          /\ InUnitRange(vq_report.color_score)
          /\ InUnitRange(vq_report.lighting_score)
          /\ InUnitRange(vq_report.overall_quality)
    /\ \A k \in 1..Len(sharpness_scores) : InUnitRange(sharpness_scores[k])
    /\ \A k \in 1..Len(color_scores) : InUnitRange(color_scores[k])
    /\ \A k \in 1..Len(lighting_scores) : InUnitRange(lighting_scores[k])
    /\ \A k \in 1..Len(resolution_scores) :
          0 <= resolution_scores[k] /\ resolution_scores[k] <= ScoreUnits

C17_Witness ==
    /\ vq_pc = "returned"
    /\ ~vq_caught
    /\ Len(frames) = 1
    /\ frames[1].gray
    /\ frames[1].clipped = Scale
    /\ frames[1].brightness = 500
    /\ frames[1].dynamic_range = 800
    /\ total_pixels = 3840 * 2160
    /\ vq_report.resolution_score = Scale
    /\ vq_report.color_score = Scale \div 2
    /\ vq_report.lighting_score > 0
    /\ vq_report.overall_quality > 0

\* The breakpoints of _get_resolution_score and the score at each.
Breakpoints == {300000, 900000, 2000000, 8000000}

BreakpointScore(b) ==
    CASE b = 300000 -> ScoreUnits \div 10
      [] b = 900000 -> 3 * (ScoreUnits \div 10)
      [] b = 2000000 -> 7 * (ScoreUnits \div 10)
      [] b = 8000000 -> ScoreUnits

\* The most the score rises over one pixel: the slope 0.4 / 1,100,000.
SteepestStep == (4 * (ScoreUnits \div 10)) \div 1100000

\* The parts of C18 other than the band [300,000, 900,000): the score of a
\* pixel count is at least that of every smaller count, at a breakpoint it is
\* the value the tier below ends on, one pixel below a breakpoint it is less
\* than one step away from it, and from 8,000,000 pixels on it is 1.0.
ResolutionScoreIsMonotoneAndContinuous ==
    vq_pc = "resolution_returned" =>
        /\ \A q \in PixelCounts :
              q <= total_pixels => GetResolutionScore(q) <= resolution_scores[1]
        /\ \A b \in Breakpoints :
              /\ total_pixels = b => resolution_scores[1] = BreakpointScore(b)
              /\ total_pixels = b - 1 =>
                    /\ resolution_scores[1] <= BreakpointScore(b)
                    /\ BreakpointScore(b) - resolution_scores[1] <= SteepestStep
        /\ total_pixels >= 8000000 => resolution_scores[1] = ScoreUnits

\* C18 as stated: monotone, continuous, 1.0 from 8,000,000 pixels on, and
\* strictly between 0.1 and 0.5 for every count in [300,000, 900,000).
C18_ResolutionScoreAsStated ==
    /\ ResolutionScoreIsMonotoneAndContinuous
    /\ (vq_pc = "resolution_returned"
            /\ 300000 <= total_pixels /\ total_pixels < 900000) =>
          /\ resolution_scores[1] > ScoreUnits \div 10
          /\ resolution_scores[1] < ScoreUnits \div 2

\* C18, amended: the band is strict only above 300,000 pixels; at exactly
\* 300,000 the score is 0.1.
C18_ResolutionScore ==
    /\ ResolutionScoreIsMonotoneAndContinuous
    /\ (vq_pc = "resolution_returned"
            /\ 300000 < total_pixels /\ total_pixels < 900000) =>
          /\ resolution_scores[1] > ScoreUnits \div 10
          /\ resolution_scores[1] < ScoreUnits \div 2
    /\ (vq_pc = "resolution_returned" /\ total_pixels = 300000) =>
          resolution_scores[1] = ScoreUnits \div 10

C18_Witness ==
    /\ vq_pc = "resolution_returned"
    /\ total_pixels = 640 * 480
    /\ resolution_scores[1] > ScoreUnits \div 10
    /\ resolution_scores[1] < 3 * (ScoreUnits \div 10)

\* ------------------------------------------------- IAFaceDetector: claims

\* The faces run analyses: the first min(detected, max_faces_to_analyze).
Analysed == 1..Min(Len(detected), max_faces_to_analyze)

\* The analysed faces counted as synthetic, for faces whose hf_ratio is a
\* whole thousandth: the analysis did not fail and 1 - realness reached
\* max_observed = 1.0, i.e. hf_ratio <= 0.1.
Synthetic == {k \in Analysed : ~detected[k].fails /\ detected[k].hf_ratio <= 100}

\* C19: run returns 0.0 when no face is detected (and when no face is
\* analysed), otherwise k/n for the n = min(detected, max_faces_to_analyze)
\* analysed faces of which k are counted as synthetic; the score is never
\* outside [0,1].
C19_ScoreIsFractionOfAnalysedFaces ==
    fd_pc = "returned" =>
        /\ fd_result.den > 0
        /\ 0 <= fd_result.num /\ fd_result.num <= fd_result.den
        /\ detected = <<>> => fd_result.num = 0
        /\ Analysed = {} => fd_result.num = 0
        /\ Analysed # {} =>
              /\ fd_result.den = Cardinality(Analysed)
              /\ fd_result.num = Cardinality(Synthetic)

C19_Witness ==
    /\ fd_pc = "returned"
    /\ Len(detected) = MaxFaces
    /\ max_faces_to_analyze = MaxFaces - 1
    /\ fd_result.den = MaxFaces - 1
    /\ fd_result.num = 1

\* C20: a failure while analysing one face gives that face the suspicion
\* 0.0, so that it counts in the denominator and not in the numerator, and
\* does not end the batch: every face to analyse gets a score, run returns
\* its score, and run raises only before any face is analysed.
C20_FaceFailureIsLocal ==
    /\ \A k \in 1..Len(ai_scores) : detected[k].fails => ai_scores[k] = 0
    /\ fd_pc = "raised" => (faces_to_analyze = <<>> /\ ai_scores = <<>>)
    /\ (fd_pc = "returned" /\ Analysed # {}) =>
          /\ Len(ai_scores) = Cardinality(Analysed)
          /\ fd_result.den = Cardinality(Analysed)
          /\ fd_result.num
                 = Cardinality({k \in Analysed : ~detected[k].fails
                                                    /\ ai_scores[k] >= Scale})

C20_Witness ==
    /\ fd_pc = "returned"
    /\ Len(ai_scores) = MaxFaces
    /\ detected[1].fails
    /\ detected[1].hf_ratio <= 100
    /\ ~detected[2].fails
    /\ ai_scores[1] = 0
    /\ ai_scores[2] = Scale
    /\ fd_result = Fraction(1, MaxFaces)

\* The realness score of a face is exactly 0.
RealnessIsZero(face) ==
    ComputePrnuScore(face.hf_ratio) = 0 /\ face.ulps = 0

\* The realness score of a face is at most 2^-54 (8 units of 2^-57).
RealnessIsRoundedAway(face) ==
    /\ ComputePrnuScore(face.hf_ratio) = 0
    /\ ComputePrnuScoreAtEdge(face.ulps) <= 8

\* The realness score of a face is at least 2^-52 (32 units of 2^-57).
RealnessIsKept(face) ==
    \/ ComputePrnuScore(face.hf_ratio) > 0
    \/ ComputePrnuScoreAtEdge(face.ulps) >= 32

\* C21, as stated: the faces counted in the numerator are exactly the
\* analysed faces whose realness score is 0; a face with realness > 0,
\* however small, is not counted.
C21_CountedIffRealnessIsZero ==
    (fd_pc = "returned" /\ Analysed # {}) =>
        fd_result.num = Cardinality({k \in Analysed :
                                        /\ ~detected[k].fails
                                        /\ RealnessIsZero(detected[k])})

\* C21, amended: the faces counted in the numerator are exactly the analysed
\* faces whose suspicion score is the double 1.0; that is the score of a
\* face whose realness is at most 2^-54, which the subtraction 1 - realness
\* rounds away, and not the score of a face whose realness is 2^-52 or
\* more; when no face is saturated the score is 0.0.
C21_CountedIffSaturated ==
    (fd_pc = "returned" /\ Analysed # {}) =>
        /\ \A k \in Analysed : ai_scores[k] <= Scale
        /\ fd_result.num
              = Cardinality({k \in Analysed : ai_scores[k] = Scale})
        /\ \A k \in Analysed :
              ~detected[k].fails =>
                  /\ RealnessIsRoundedAway(detected[k]) => ai_scores[k] = Scale
                  /\ RealnessIsKept(detected[k]) => ai_scores[k] < Scale
        /\ (\A k \in Analysed : ai_scores[k] < Scale) => fd_result.num = 0

C21_Witness ==
    /\ fd_pc = "returned"
    /\ Len(ai_scores) = MaxFaces
    /\ detected[1] = EdgeFace(1)
    /\ detected[2] = EdgeFace(MaxUlps)
    /\ detected[3] = EdgeFace(0)
    /\ ai_scores[1] = Scale
    /\ ai_scores[2] < Scale
    /\ fd_result.num = 2

\* ----------------------------------------------- transcribe_video: claims

\* What makes a handler convert and retry: an OSError whose message
\* contains "failed to read" or "MoviePy error".
IsDecodeFailure(e) ==
    e.type = "OSError" /\ (HasFailedToRead(e.msg) \/ HasMoviePyError(e.msg))

\* C22: inside a process call scene detection and the opening of the video
\* are each attempted once, and what they raise ends the call; a request to
\* /analyze-video or /transcript calls process at most twice, and a second
\* time only for an upload whose path ends in .webm, after a first call
\* that raised an OSError containing "failed to read" or "MoviePy error",
\* and on the converted .mp4.
C22_DecodeFailureRetriedOnlyUpstream ==
    /\ [][/\ pc' # "detect"
          /\ pc' = "open" => pc = "detect"
          /\ pc # "raised"
          /\ (pc \in {"detect", "open"} /\ exc' # exc) => pc' = "raised"]_vars
    /\ [](\A r \in Requests :
            /\ attempts[r] <= 2
            /\ Len(process_errors[r]) <= attempts[r]
            /\ attempts[r] = 2 =>
                  /\ upload[r].ext = ".webm"
                  /\ video_path[r] = Mp4Path(upload[r])
                  /\ process_errors[r] # <<>>
                  /\ IsDecodeFailure(process_errors[r][1]))

C22_Witness ==
    \E r \in Requests :
        /\ rq_pc[r] = "t_except"
        /\ attempts[r] = 2
        /\ Len(process_errors[r]) = 2
        /\ IsDecodeFailure(process_errors[r][1])

C25_FailedRequestRemovesOnlyItsOwnUpload ==
    /\ [][\A r \in Requests :
            (rq_pc[r] = "t_except" /\ rq_pc'[r] = "done") =>
                /\ (fs \ fs') \subseteq {VideoFile(upload[r])}
                /\ video_existed[r] => fs' = fs]_vars
    /\ [](\A r \in Requests :
            (/\ rq_pc[r] = "done"
             /\ response[r].status = 500
             /\ video_path[r] # NoPath
             /\ ~video_existed[r]
             /\ \A o \in Requests \ {r} : upload[o].hash # upload[r].hash)
                => VideoFile(upload[r]) \notin fs)

\* -------------------------------------------- TranscriptionService: claims

MinScore(rep) ==
    Min(rep.nsfw_violence.score,
        Min(rep.bias_stereotypes.score, rep.misleading_claims.score))

MaxScore(rep) ==
    Max(rep.nsfw_violence.score,
        Max(rep.bias_stereotypes.score, rep.misleading_claims.score))

\* C26: the severity of a report is "safe" iff the lowest sub-score is at
\* least 80, "warning" iff it is at least 60 and below 80, "unsafe" iff it is
\* below 60; a "safe" report has an overall score of at least 80; and the
\* overall score lies between the lowest and the highest sub-score.
C26_SeverityFollowsLowestScore ==
    sc_pc = "returned" =>
        /\ sc_report.severity = "safe" <=> MinScore(sc_report) >= 80
        /\ sc_report.severity = "warning" <=>
              (60 <= MinScore(sc_report) /\ MinScore(sc_report) < 80)
        /\ sc_report.severity = "unsafe" <=> MinScore(sc_report) < 60
        /\ sc_report.severity = "safe" => sc_report.overall_score >= 80 * 10
        /\ MinScore(sc_report) * 10 <= sc_report.overall_score
        /\ sc_report.overall_score <= MaxScore(sc_report) * 10

C26_Witness ==
    /\ sc_pc = "returned"
    /\ sc_report.severity = "warning"
    /\ sc_report.nsfw_violence.score = 100
    /\ sc_report.bias_stereotypes.score = 79
    /\ sc_report.misleading_claims.score = 100
    /\ sc_report.overall_score = 937

\* The sub-results of a report that come from an except clause.
SubResultsOf(rep) ==
    {rep.nsfw_violence, rep.bias_stereotypes, rep.misleading_claims}

\* C30: when a sub-analysis failed, check_safety still returns a complete
\* report, the failed sub-result has the score 50 and the flag "warning",
\* and the severity of the report agrees with that flag: it is never "safe",
\* and it is "warning" when no sub-score is below 60 apart from the failed ones.
C30_FailedAnalysisReportsWarning ==
    (sc_pc = "returned" /\ \E res \in SubResultsOf(sc_report) : res.failed) =>
        /\ NoSubResult \notin SubResultsOf(sc_report)
        /\ \A res \in SubResultsOf(sc_report) :
              res.failed => (res.score = 50 /\ res.flag = "warning")
        /\ sc_report.severity # "safe"
        /\ (\A res \in SubResultsOf(sc_report) : res.failed \/ res.score >= 60)
              => sc_report.severity = "warning"

\* C29: outside transcribe_audio and outside analyze_nsfw_violence, no file
\* that the function uploaded to the service is left on it.
C29_UploadsAreDeletedOnEveryExit ==
    /\ ts_pc \in {"loop", "returned", "raised"} => ts_remote = 0
    /\ sc_pc \in {"bias", "misleading", "report", "returned"} => sc_remote = 0

\* -------------------------------------------- _extract_keyframes: claims

\* A timestamp lies inside the scene being extracted and inside the video.
InsideScene(t) == start_time <= t /\ t <= end_time /\ t >= 0

\* C28: every timestamp _extract_keyframes requests from the decoder for a
\* detected scene lies inside that scene and is not negative, whatever
\* duration the decoder reports for the clip.
C28_KeyframesLieInsideTheirScene ==
    (/\ caller = "process" /\ pc = "keyframes"
     /\ 0 <= start_time /\ start_time < end_time /\ end_time <= duration) =>
        /\ \A j \in 1..Len(keyframes) : InsideScene(keyframes[j].at)
        /\ i < num_frames =>
              InsideScene(Clamp(Timestamp(start_time, end_time, num_frames, i),
                                clip_duration))

\* -------------------------------------------------- VideoProcessor: claims

\* The histogram the j-th key moment was compared with: the one of the key
\* moment before it, or of the first frame.
ReferenceOf(moments, j) ==
    IF j = 1 THEN vs_frames[1].hist ELSE vs_frames[moments[j - 1].frame].hist

====
